---------------------------- MODULE Spec2Model ----------------------------
(***************************************************************************)
(* A model of zrpc: the Server request loop (lib/zrpc/server.py), the      *)
(* Registry dispatch (lib/zrpc/registry.py), the Callback rendezvous       *)
(* (lib/zrpc/concurrency.py), the LoadBalancer (lib/zrpc/loadbal.py) and   *)
(* the MultiServer start-up protocol (lib/zrpc/multiserver.py).            *)
(*                                                                         *)
(* The ObjectPool (lib/zrpc/object_pool.py) is modelled too.               *)
(*                                                                         *)
(* The specifications share the variables:                                 *)
(*   Spec         one Server.run, or one LoadBalancer.run, on its own      *)
(*   SpecMulti    MultiServer.run: the caller, the device thread and the   *)
(*                worker threads, interleaved                              *)
(*   SpecCallback one Callback used by a signaler and waiting threads,     *)
(*                statement by statement (FairCallback adds the            *)
(*                scheduler's fairness)                                    *)
(*   SpecRegion   one Callback whose signaler runs catch_exceptions        *)
(*                regions (FairRegion adds fairness)                       *)
(*   SpecPool     one ObjectPool used by concurrent threads, statement by  *)
(*                statement (FairPool adds fairness)                       *)
(*   SpecRpc      one Client call through the codec and                    *)
(*                Server.process_message, and direct Registry dispatch     *)
(***************************************************************************)
EXTENDS Integers, Sequences, FiniteSets, TLC

\* Bounds of the model.
MaxRequests == 3    \* request frames the transport delivers to one server
MaxDieAfter == 2    \* largest die_after argument tried
MaxWorkers == 2     \* largest n_workers argument tried
MaxCalls == 5       \* method calls made on the callback under test
MaxSize == 2        \* largest maxsize argument of ObjectPool tried
MaxRegistrations == 1   \* registrations made after the registry is built
MaxGets == 2        \* get scopes entered on the pool under test

VARIABLES
    srv,        \* server id -> the state of one Server.run invocation
    cbs,        \* callback id -> Callback object (event, value, exc_info)
    lb,         \* the state of the LoadBalancer.run invocation
    ms,         \* the state of the MultiServer.run invocation
    net,        \* the transport: terminated context, bound endpoints, frames
    thr,        \* thread id -> position in its Callback or ObjectPool method
    sig,        \* SpecCallback: the signals made so far, in order
    pool,       \* the ObjectPool: semaphore, object_lock, objects
    rpc         \* SpecRpc: a registry, and one Client call on its way

vars == <<srv, cbs, lb, ms, net, thr, sig, pool, rpc>>

---------------------------------------------------------------------------
(* Python values as they travel through the codec.                         *)

None == [tag |-> "None"]
IntV(i) == [tag |-> "int", n |-> i]
StrV(s) == [tag |-> "str", s |-> s]
ListV(items) == [tag |-> "list", items |-> items]
TupleV(items) == [tag |-> "tuple", items |-> items]
\* A Python object the BSON codec has no encoding for.
Object == [tag |-> "object"]
\* A socket object, named by its owner.
SocketV(owner) == [tag |-> "socket", owner |-> owner]

\* Python truth value of None and integers (`die_after and ...`).
Truthy(v) ==
    CASE v.tag = "None" -> FALSE
      [] v.tag = "int" -> v.n # 0
      [] OTHER -> TRUE

\* BSON.encode succeeds on a tuple of values iff each of them has an encoding.
ArgsEncodable(args) == \A i \in 1..Len(args) : args[i].tag # "object"

ValueEncodable(v) ==
    CASE v.tag = "object" -> FALSE
      [] v.tag = "socket" -> FALSE
      [] v.tag = "list" -> ArgsEncodable(v.items)
      [] v.tag = "tuple" -> ArgsEncodable(v.items)
      [] OTHER -> TRUE

\* The BSON element BSON.encode writes for a value: lists and tuples are
\* both written as arrays.
RECURSIVE ToBSON(_)
ToBSON(v) ==
    CASE v.tag = "None" -> [bson |-> "null"]
      [] v.tag = "int" -> [bson |-> "int", n |-> v.n]
      [] v.tag = "str" -> [bson |-> "string", s |-> v.s]
      [] v.tag \in {"list", "tuple"} ->
            [bson |-> "array",
             items |-> [i \in 1..Len(v.items) |-> ToBSON(v.items[i])]]

\* The value BSON(...).decode() builds for an element: an array becomes a
\* list.
RECURSIVE FromBSON(_)
FromBSON(e) ==
    CASE e.bson = "null" -> None
      [] e.bson = "int" -> IntV(e.n)
      [] e.bson = "string" -> StrV(e.s)
      [] e.bson = "array" ->
            ListV([i \in 1..Len(e.items) |-> FromBSON(e.items[i])])

---------------------------------------------------------------------------
(* Exceptions.  std is TRUE for the classes derived from Exception, the    *)
(* ones an `except Exception` clause catches.                              *)

Exc(module, name, args, text, std) ==
    [module |-> module, name |-> name, args |-> args, text |-> text,
     std |-> std, errno |-> "none"]

\* A MissingMethod raised without the name.
MissingMethod_NoArgs(method_name) ==
    Exc("zrpc.exceptions", "MissingMethod", << >>, "", TRUE)

MissingMethod(method_name) ==
    Exc("zrpc.exceptions", "MissingMethod", <<StrV(method_name)>>,
        method_name, TRUE)

KeyError(key) == Exc("exceptions", "KeyError", <<StrV(key)>>, key, TRUE)
TypeError(text) == Exc("exceptions", "TypeError", <<StrV(text)>>, text, TRUE)
UnboundLocalError(name) ==
    Exc("exceptions", "UnboundLocalError", <<StrV(name)>>, name, TRUE)
InvalidBSON == Exc("bson.errors", "InvalidBSON", <<StrV("bad frame")>>,
                   "bad frame", TRUE)
\* What BSON.encode raises on a value it has no encoding for: a BSONError,
\* which is an Exception and not a TypeError.
InvalidDocument ==
    Exc("bson.errors", "InvalidDocument", <<StrV("cannot encode object")>>,
        "cannot encode object", TRUE)
SystemExit == Exc("exceptions", "SystemExit", <<>>, "", FALSE)
KeyboardInterrupt == Exc("exceptions", "KeyboardInterrupt", <<>>, "", FALSE)

ZMQError(errno) ==
    [module |-> "zmq.core.error", name |-> "ZMQError",
     args |-> <<StrV(errno)>>, text |-> errno, std |-> TRUE, errno |-> errno]

IsZMQError(e) == e.name = "ZMQError"

\* The outcome of a call: a returned value or a raised exception.
Return(v) == [kind |-> "return", value |-> v]
Raise(e) == [kind |-> "raise", exc |-> e]

---------------------------------------------------------------------------
(* Registry: name -> handler, and dispatch.                                *)

\* The handlers registered in the registry under test.  add and
\* raises_error are the ones of tests/server_test.py; the others cover the
\* remaining kinds of outcome a handler can have.
RegisteredNames ==
    {"add", "math.add", "raises_error", "returns_none", "returns_object",
     "raises_unencodable", "exits"}

REGISTRY == [name \in RegisteredNames |-> name]

IsAddArgs(args) ==
    /\ Len(args) = 2
    /\ args[1].tag = "int"
    /\ args[2].tag = "int"

\* Calling a registered function with positional arguments.
CallHandler(h, args) ==
    CASE h \in {"add", "math.add"} ->
            IF IsAddArgs(args)
            THEN Return(IntV(args[1].n + args[2].n))
            ELSE Raise(TypeError("add() takes exactly 2 arguments"))
      [] h = "raises_error" ->
            IF Len(args) = 0
            THEN Raise(Exc("exceptions", "Exception",
                           <<StrV("some error occurred")>>,
                           "some error occurred", TRUE))
            ELSE Raise(TypeError("raises_error() takes no arguments"))
      [] h = "returns_none" -> Return(None)
      [] h = "returns_object" -> Return(Object)
      [] h = "raises_unencodable" ->
            Raise(Exc("exceptions", "ValueError", <<Object>>, "object", TRUE))
      [] h = "exits" -> Raise(SystemExit)
      [] h = "echo" ->
            IF Len(args) = 1 THEN Return(args[1])
            ELSE Raise(TypeError("echo() takes exactly 1 argument"))
      [] h = "pair" ->
            IF Len(args) = 2 THEN Return(TupleV(<<args[1], args[2]>>))
            ELSE Raise(TypeError("pair() takes exactly 2 arguments"))
      [] h = "raises_keyerror" -> Raise(KeyError("missing"))

\* A dispatch whose try block covers the call of the method too, so that a
\* KeyError raised by the method is reported as a missing method.
RegistryCall_CatchesKeyError(registry, method_name, args) ==
    IF method_name \in DOMAIN registry
    THEN LET out == CallHandler(registry[method_name], args)
         IN  IF out.kind = "raise" /\ out.exc.name = "KeyError"
             THEN Raise(MissingMethod(method_name))
             ELSE out
    ELSE Raise(MissingMethod(method_name))

\* Registry.__call__(method_name, *args)
RegistryCall(registry, method_name, args) ==
    IF method_name \in DOMAIN registry
    THEN CallHandler(registry[method_name], args)
    ELSE Raise(MissingMethod(method_name))

---------------------------------------------------------------------------
(* Server.get_response and Server.process_message.                         *)

\* try: BSON.encode({'args': exc.args})
EncodeArgs(args) ==
    IF ArgsEncodable(args) THEN Return(None) ELSE Raise(InvalidDocument)

\* The except clause of get_response: the error record is built, args
\* being added when the probe raised nothing and left out when it raised
\* a TypeError; any other exception of the probe leaves get_response.
ErrorRecord(exc) ==
    LET base == [type |-> exc.module \o "." \o exc.name,
                 message |-> exc.name \o ": " \o exc.text]
        probe == EncodeArgs(exc.args)
    IN  CASE probe.kind = "return" -> Return(base @@ [args |-> exc.args])
          [] probe.kind = "raise" /\ probe.exc.name = "TypeError" ->
                Return(base)
          [] OTHER -> probe

\* return {"result": None, "error": error}
ErrorResponse(exc) ==
    LET error == ErrorRecord(exc)
    IN  IF error.kind = "raise" THEN error
        ELSE Return([result |-> None, error |-> error.value])

\* get_response whose except clause never assigns `error`.
get_response_DropsError(registry, method_name, args) ==
    LET out == RegistryCall(registry, method_name, args)
    IN  CASE out.kind = "return" ->
                Return([result |-> out.value, error |-> None])
          [] out.kind = "raise" /\ out.exc.std ->
                Return([result |-> None, error |-> None])
          [] OTHER -> out

\* Server.get_response(func, *args), func being the registry.
get_response(registry, method_name, args) ==
    LET out == RegistryCall(registry, method_name, args)
    IN  CASE out.kind = "return" ->
                Return([result |-> out.value, error |-> None])
          [] out.kind = "raise" /\ out.exc.std ->
                ErrorResponse(out.exc)
          [] OTHER -> out

HasKey(message, key) == key \in DOMAIN message

\* process_message that copies the id onto successful responses only.
process_message_IdOnSuccess(registry, message) ==
    IF ~HasKey(message, "method") THEN Raise(KeyError("method"))
    ELSE IF ~HasKey(message, "params") THEN Raise(KeyError("params"))
    ELSE IF message.params.tag # "list"
         THEN Raise(TypeError("argument after * must be a sequence"))
    ELSE LET r == get_response(registry, message.method, message.params.items)
         IN  IF r.kind = "raise" THEN r
             ELSE IF HasKey(message, "id") /\ r.value.error = None
                  THEN Return(r.value @@ [id |-> message.id])
                  ELSE r

\* Server.process_message(message)
process_message(registry, message) ==
    IF ~HasKey(message, "method") THEN Raise(KeyError("method"))
    ELSE IF ~HasKey(message, "params") THEN Raise(KeyError("params"))
    ELSE IF message.params.tag # "list"
         THEN Raise(TypeError("argument after * must be a sequence"))
    ELSE LET r == get_response(registry, message.method, message.params.items)
         IN  IF r.kind = "raise" THEN r
             ELSE IF HasKey(message, "id")
                  THEN Return(r.value @@ [id |-> message.id])
                  ELSE r

\* BSON.encode of a response envelope.
ResponseEncodable(response) == ValueEncodable(response.result)

---------------------------------------------------------------------------
(* Callback and DummyCallback (the methods as whole calls).                *)

CallbackKinds == {"Callback", "DummyCallback"}

\* Callback.__init__
NewCallback == [event |-> FALSE, value |-> None, exc_info |-> None]

\* send(value)
CbSend(kind, cb, value) ==
    IF kind = "DummyCallback" THEN cb
    ELSE [cb EXCEPT !.value = value, !.event = TRUE]

\* throw(): the exception being handled is deposited.
CbThrow(kind, cb, exc) ==
    IF kind = "DummyCallback" THEN cb
    ELSE [cb EXCEPT !.exc_info = exc, !.event = TRUE]

\* die(): Callback raises SystemExit, DummyCallback returns.
CbDie(kind) == IF kind = "DummyCallback" THEN "returns" ELSE "SystemExit"

\* wait() may return: DummyCallback never blocks.
CbWaitEnabled(kind, cb) == kind = "DummyCallback" \/ cb.event

\* What wait() yields once it may return.
CbWaitResult(kind, cb) ==
    IF kind = "DummyCallback" THEN Return(None)
    ELSE IF cb.exc_info # None THEN Raise(cb.exc_info)
    ELSE Return(cb.value)

\* `with callback.catch_exceptions(die):` when the region raises exc.
\* flow: "exit" the thread ends by SystemExit, "swallow" execution goes on
\* after the region, "raise" exc leaves the region.
CatchExceptions(kind, cb, exc, die) ==
    IF ~exc.std THEN [cb |-> cb, flow |-> "raise"]
    ELSE [cb |-> CbThrow(kind, cb, exc),
          flow |-> IF ~die THEN "raise"
                   ELSE IF CbDie(kind) = "SystemExit" THEN "exit"
                   ELSE "swallow"]

---------------------------------------------------------------------------
(* The transport.                                                          *)

\* Request envelopes a client may send, decoded.
Methods == RegisteredNames \cup {"doesnotexist", "math"}
ParamValues == {ListV(<<IntV(3), IntV(4)>>), ListV(<<>>), IntV(7)}
IdValues == {StrV("abc"), StrV("xyz")}

WellKeyed ==
    {[method |-> m, params |-> p] : m \in Methods, p \in ParamValues}
    \cup {[id |-> i, method |-> m, params |-> p] :
            i \in IdValues, m \in Methods, p \in ParamValues}

MissingKeys ==
    {[id |-> StrV("abc"), params |-> ListV(<<>>)],
     [id |-> StrV("abc"), method |-> "add"]}

Messages == WellKeyed \cup MissingKeys

\* A frame on the wire: an encoded envelope, or bytes that do not decode.
Frames == {[ok |-> TRUE, doc |-> m] : m \in Messages}
          \cup {[ok |-> FALSE, doc |-> None]}

\* The frames of the one-request scenario used with MultiServer.
AddFrames ==
    {[ok |-> TRUE,
      doc |-> [id |-> StrV("abc"), method |-> "add",
               params |-> ListV(<<IntV(3), IntV(4)>>)]]}

\* The frames clients send in a run, by the name kept in net.frames.
FramesOf(traffic) ==
    CASE traffic = "any" -> Frames
      [] traffic = "add" -> AddFrames
      [] OTHER -> {}

\* BSON(frame).decode()
Decode(frame) == IF frame.ok THEN Return(frame.doc) ELSE Raise(InvalidBSON)

\* errno values a failing socket call may carry.
Errnos == {"ETERM", "EADDRINUSE"}

\* A call fails with ETERM only on a terminated context, and on a terminated
\* context every call fails with it (the device also with the errno values
\* 0 and EAGAIN, which LoadBalancer.run takes for termination).
ErrnoPossible(errno) ==
    /\ errno = "ETERM" => net.terminated
    /\ net.terminated => errno \in {"ETERM", "0", "EAGAIN"}

PublicAddr == "tcp://zrpc"
BackendAddr == "inproc://uuid"

\* connect() to an inproc address needs the address bound.
CanConnect(addr) == addr = BackendAddr => addr \in net.bound

---------------------------------------------------------------------------
(* Server.run                                                              *)

DieAfters == {None} \cup {IntV(n) : n \in 0..MaxDieAfter}

\* iterator = die_after and repeat(None, die_after) or repeat(None):
\* the number of iterations left, None for an endless iterator.
Iterator(die_after) == IF Truthy(die_after) THEN die_after ELSE None

IterHasNext(iter) == iter = None \/ iter.n > 0
IterNext(iter) == IF iter = None THEN None ELSE IntV(iter.n - 1)

\* The locals of one run: pc is the statement the thread is at; exit is how
\* the statements of run ended ("returned", "raised": an exception left
\* them, "died": SystemExit from callback.die()); left is how run ended
\* for its caller; exc is the last exception raised inside run; errors
\* counts the error responses sent.
NewServer(addr, connect, die_after, kind, pc) ==
    [pc |-> pc, addr |-> addr, connect |-> connect, die_after |-> die_after,
     kind |-> kind, socket |-> "unassigned", closed |-> FALSE,
     iter |-> None, received |-> 0, sent |-> 0, errors |-> 0, msg |-> None,
     response |-> None, signalled |-> FALSE, failed_start |-> FALSE,
     exit |-> "none", left |-> "none", exc |-> None]

\* What run's caller sees when the block
\* `with nested(run_logger.catch_exceptions(), closing(...)):` is left with
\* the try statement ended as `exit`: Logbook's catch_exceptions() logs an
\* exception that leaves the block and ends the block normally, so run
\* returns in both cases.
LoggedBlock(exit) == IF exit \in {"returned", "raised"} THEN "returned" ELSE exit

Servers == DOMAIN srv

\* run without the catch_exceptions region: the failure is dropped and run
\* goes on to callback.send(socket).
SrvStartupFailed_Ignored(s, exc) ==
    /\ cbs' = cbs
    /\ srv' = [srv EXCEPT ![s].pc = "ready", ![s].failed_start = TRUE,
                          ![s].exc = exc]

\* The region of run guarded by callback.catch_exceptions() raised exc.
SrvStartupFailed(s, exc) ==
    LET c == CatchExceptions(srv[s].kind, cbs[s], exc, TRUE)
        st == [srv[s] EXCEPT !.failed_start = TRUE, !.exc = exc]
    IN  /\ cbs' = [cbs EXCEPT ![s] = c.cb]
        /\ srv' = [srv EXCEPT ![s] =
                IF c.flow = "swallow"
                THEN [st EXCEPT !.pc = "ready"]
                ELSE [st EXCEPT !.pc = "done",
                                !.exit = IF c.flow = "exit" THEN "died"
                                         ELSE "raised",
                                !.left = IF c.flow = "exit" THEN "died"
                                         ELSE "raised"]]

\* socket = self.context.socket(zmq.REP)
SrvCreate(s) ==
    /\ srv[s].pc = "create"
    /\ \/ /\ ~net.terminated
          /\ srv' = [srv EXCEPT ![s].pc = "bind", ![s].socket = "created"]
          /\ cbs' = cbs
       \/ \E errno \in Errnos :
             /\ ErrnoPossible(errno)
             /\ SrvStartupFailed(s, ZMQError(errno))
    /\ UNCHANGED <<lb, ms, net, thr, sig, pool, rpc>>

\* socket.connect(self.addr) or socket.bind(self.addr)
SrvBind(s) ==
    /\ srv[s].pc = "bind"
    /\ \/ /\ ~net.terminated
          /\ srv[s].connect => CanConnect(srv[s].addr)
          /\ srv' = [srv EXCEPT ![s].pc = "ready",
                                ![s].socket = IF srv[s].connect
                                              THEN "connected" ELSE "bound"]
          /\ cbs' = cbs
       \/ \E errno \in Errnos \cup {"ECONNREFUSED"} :
             /\ ErrnoPossible(errno)
             /\ errno = "ECONNREFUSED" =>
                    srv[s].connect /\ ~CanConnect(srv[s].addr)
             /\ SrvStartupFailed(s, ZMQError(errno))
    /\ UNCHANGED <<lb, ms, net, thr, sig, pool, rpc>>

\* Leaving `with nested(run_logger.catch_exceptions(), closing(socket))`:
\* the socket is closed whichever way the block ends, and the logger's
\* region is left.
SrvLeaveLoop(st, exit, exc) ==
    [st EXCEPT !.pc = "done", !.closed = TRUE, !.exit = exit,
               !.left = LoggedBlock(exit), !.exc = exc]

\* The head of `for _ in iterator:`.
SrvLoopHead(st, iter) ==
    IF IterHasNext(iter)
    THEN [st EXCEPT !.pc = "recv", !.iter = IterNext(iter)]
    ELSE SrvLeaveLoop([st EXCEPT !.iter = iter], "returned", st.exc)

\* A handler that re-raises every ZMQError, the terminated-context error
\* included.
SrvLoopError_ReraisesAll(st, exc) == SrvLeaveLoop(st, "raised", exc)

\* except zmq.ZMQError: ETERM is passed over, anything else is re-raised.
SrvLoopError(st, exc) ==
    IF IsZMQError(exc) /\ exc.errno = "ETERM"
    THEN SrvLeaveLoop(st, "returned", exc)
    ELSE SrvLeaveLoop(st, "raised", exc)

\* callback.send(socket), then the iterator and the first loop test.
SrvReady(s) ==
    /\ srv[s].pc = "ready"
    /\ IF srv[s].socket = "unassigned"
       THEN /\ srv' = [srv EXCEPT ![s].pc = "done", ![s].exit = "raised",
                                  ![s].left = "raised",
                                  ![s].exc = UnboundLocalError("socket")]
            /\ cbs' = cbs
       ELSE /\ cbs' = [cbs EXCEPT ![s] =
                          CbSend(srv[s].kind, @, SocketV(s))]
            /\ srv' = [srv EXCEPT ![s] =
                          SrvLoopHead([@ EXCEPT !.signalled = TRUE],
                                      Iterator(srv[s].die_after))]
    /\ UNCHANGED <<lb, ms, net, thr, sig, pool, rpc>>

\* A peer can reach the socket.
Reachable(st) == st.socket \in {"bound", "connected"}

\* message = BSON(socket.recv()).decode()
SrvRecv(s) ==
    /\ srv[s].pc = "recv"
    /\ \/ \E frame \in FramesOf(net.frames) :
             /\ ~net.terminated
             /\ Reachable(srv[s])
             /\ net.left > 0
             /\ net' = [net EXCEPT !.left = @ - 1]
             /\ LET d == Decode(frame)
                    st == [srv[s] EXCEPT !.received = @ + 1, !.msg = None,
                                         !.response = None]
                IN  srv' = [srv EXCEPT ![s] =
                        IF d.kind = "raise" THEN SrvLoopError(st, d.exc)
                        ELSE [st EXCEPT !.pc = "process", !.msg = d.value]]
       \/ \E errno \in Errnos :
             /\ ErrnoPossible(errno)
             /\ srv' = [srv EXCEPT ![s] = SrvLoopError(@, ZMQError(errno))]
             /\ net' = net
    /\ UNCHANGED <<cbs, lb, ms, thr, sig, pool, rpc>>

\* The locals after a response was sent.
SrvSent(st, response) ==
    [st EXCEPT !.sent = @ + 1, !.response = response,
               !.errors = IF response.error # None THEN @ + 1 ELSE @]

\* socket.send(BSON.encode(self.process_message(message))), then the next
\* loop test.
SrvSend(s) ==
    /\ srv[s].pc = "process"
    /\ LET r == process_message(REGISTRY, srv[s].msg)
       IN  IF r.kind = "raise"
           THEN srv' = [srv EXCEPT ![s] = SrvLoopError(@, r.exc)]
           ELSE IF ~ResponseEncodable(r.value)
           THEN srv' = [srv EXCEPT ![s] =
                    SrvLoopError(@, InvalidDocument)]
           ELSE \/ /\ ~net.terminated
                   /\ srv' = [srv EXCEPT ![s] =
                        SrvLoopHead(SrvSent(@, r.value), srv[s].iter)]
                \/ \E errno \in Errnos :
                      /\ ErrnoPossible(errno)
                      /\ srv' = [srv EXCEPT ![s] =
                                    SrvLoopError(@, ZMQError(errno))]
    /\ UNCHANGED <<cbs, lb, ms, net, thr, sig, pool, rpc>>

\* context.term() by the owner of the context.
Terminate ==
    /\ ~net.terminated
    /\ net' = [net EXCEPT !.terminated = TRUE]
    /\ UNCHANGED <<srv, cbs, lb, ms, thr, sig, pool, rpc>>

---------------------------------------------------------------------------
(* LoadBalancer.run                                                        *)

Topologies == {"broker", "proxy"}

NewLoadBalancer(topology, kind, pc) ==
    [pc |-> pc, topology |-> topology, kind |-> kind,
     input_socket |-> "unassigned", output_socket |-> "unassigned",
     closed |-> FALSE, signalled |-> FALSE, device |-> FALSE,
     failed_start |-> FALSE, exit |-> "none", exc |-> None]

\* The region of run guarded by callback.catch_exceptions() raised exc.
LbStartupFailed(st, exc) ==
    LET c == CatchExceptions(st.kind, cbs["lb"], exc, TRUE)
        st1 == [st EXCEPT !.failed_start = TRUE, !.exc = exc]
    IN  /\ cbs' = [cbs EXCEPT !["lb"] = c.cb]
        /\ lb' = IF c.flow = "swallow"
                 THEN [st1 EXCEPT !.pc = "ready"]
                 ELSE [st1 EXCEPT !.pc = "done",
                                  !.exit = IF c.flow = "exit" THEN "died"
                                           ELSE "raised"]

\* input_socket = self.get_socket(zmq.XREP); input_socket.bind(self.input)
LbBindInput ==
    /\ lb.pc = "input"
    /\ \/ /\ ~net.terminated
          /\ lb' = [lb EXCEPT !.pc = "output", !.input_socket = "bound"]
          /\ net' = [net EXCEPT !.bound = @ \cup {PublicAddr}]
          /\ cbs' = cbs
       \/ \E errno \in Errnos, created \in BOOLEAN :
             /\ ErrnoPossible(errno)
             /\ LbStartupFailed(
                    [lb EXCEPT !.input_socket = IF created THEN "created"
                                                ELSE "unassigned"],
                    ZMQError(errno))
             /\ net' = net
    /\ UNCHANGED <<srv, ms, thr, sig, pool, rpc>>

\* output_socket = self.get_socket(zmq.XREQ), then a connect to every node
\* of a list of outputs, or a bind to a single output address.
LbBindOutput ==
    /\ lb.pc = "output"
    /\ \/ /\ ~net.terminated
          /\ lb' = [lb EXCEPT !.pc = "ready",
                              !.output_socket = IF lb.topology = "proxy"
                                                THEN "connected" ELSE "bound"]
          /\ net' = IF lb.topology = "proxy" THEN net
                    ELSE [net EXCEPT !.bound = @ \cup {BackendAddr}]
          /\ cbs' = cbs
       \/ \E errno \in Errnos, created \in BOOLEAN :
             /\ ErrnoPossible(errno)
             /\ LbStartupFailed(
                    [lb EXCEPT !.output_socket = IF created THEN "created"
                                                 ELSE "unassigned"],
                    ZMQError(errno))
             /\ net' = net
    /\ UNCHANGED <<srv, ms, thr, sig, pool, rpc>>

\* callback.send((input_socket, output_socket)), then the device is entered.
LbReady ==
    /\ lb.pc = "ready"
    /\ IF "unassigned" \in {lb.input_socket, lb.output_socket}
       THEN /\ lb' = [lb EXCEPT !.pc = "done", !.exit = "raised",
                                !.exc = UnboundLocalError("output_socket")]
            /\ cbs' = cbs
       ELSE /\ cbs' = [cbs EXCEPT !["lb"] =
                          CbSend(lb.kind, @, SocketV("lb"))]
            /\ lb' = [lb EXCEPT !.pc = "device", !.signalled = TRUE,
                                !.device = TRUE]
    /\ UNCHANGED <<srv, ms, net, thr, sig, pool, rpc>>

\* The ways device(zmq.QUEUE, input_socket, output_socket) can end.
DeviceOutcomes ==
    {Raise(ZMQError(errno)) : errno \in Errnos \cup {"0", "EAGAIN"}}
    \cup {Raise(KeyboardInterrupt), Return(None)}

\* The except clauses around the device call: "returned" or "raised".
LbDeviceExit(out) ==
    IF out.kind = "return" THEN "returned"
    ELSE IF IsZMQError(out.exc)
         THEN IF out.exc.errno \in {"0", "ETERM", "EAGAIN"}
              THEN "returned" ELSE "raised"
    ELSE IF out.exc.name = "KeyboardInterrupt" THEN "returned"
    ELSE "raised"

\* device(...) ends; both sockets are closed on the way out.
LbDevice ==
    /\ lb.pc = "device"
    /\ \E out \in DeviceOutcomes :
          /\ out.kind = "raise" /\ IsZMQError(out.exc)
                => ErrnoPossible(out.exc.errno)
          /\ lb' = [lb EXCEPT !.pc = "done", !.closed = TRUE,
                              !.exit = LbDeviceExit(out),
                              !.exc = IF out.kind = "raise" THEN out.exc
                                      ELSE lb.exc]
    /\ UNCHANGED <<srv, cbs, ms, net, thr, sig, pool, rpc>>

---------------------------------------------------------------------------
(* Spec: one Server.run, or one LoadBalancer.run, on its own.              *)

NoLoadBalancer == NewLoadBalancer("broker", "DummyCallback", "absent")
NoMultiServer == [pc |-> "absent"]
NoThreads == [t \in {} |-> "none"]
NoPool == [maxsize |-> 0]
NoRpc == [pc |-> "absent"]

InitServer ==
    /\ \E connect \in BOOLEAN, die_after \in DieAfters, kind \in CallbackKinds :
          srv = [s \in {"server"} |->
                    NewServer(PublicAddr, connect, die_after, kind, "create")]
    /\ cbs = [c \in {"server"} |-> NewCallback]
    /\ lb = NoLoadBalancer
    /\ net = [terminated |-> FALSE, bound |-> {}, frames |-> "any",
              left |-> MaxRequests]

InitLoadBalancer ==
    /\ srv = [s \in {} |-> None]
    /\ cbs = [c \in {"lb"} |-> NewCallback]
    /\ \E topology \in Topologies, kind \in CallbackKinds :
          lb = NewLoadBalancer(topology, kind, "input")
    /\ net = [terminated |-> FALSE, bound |-> {}, frames |-> "none",
              left |-> 0]

Init ==
    /\ InitServer \/ InitLoadBalancer
    /\ ms = NoMultiServer
    /\ thr = NoThreads
    /\ sig = << >>
    /\ pool = NoPool
    /\ rpc = NoRpc

Next ==
    \/ \E s \in Servers : SrvCreate(s)
    \/ \E s \in Servers : SrvBind(s)
    \/ \E s \in Servers : SrvReady(s)
    \/ \E s \in Servers : SrvRecv(s)
    \/ \E s \in Servers : SrvSend(s)
    \/ LbBindInput
    \/ LbBindOutput
    \/ LbReady
    \/ LbDevice
    \/ Terminate

Spec == Init /\ [][Next]_vars

---------------------------------------------------------------------------
(* MultiServer.run: the calling thread, the device thread and the workers. *)

WorkerId(i) == "w" \o ToString(i)
WorkerIds(n) == {WorkerId(i) : i \in 1..n}

\* The locals of MultiServer.run: waited counts the worker callbacks whose
\* wait() has returned, sockets collects what they returned.
NewMultiServer(kind, n_workers) ==
    [pc |-> "run_device", kind |-> kind, n_workers |-> n_workers,
     waited |-> 0, sockets |-> << >>, exit |-> "none", exc |-> None]

\* run_device: the LoadBalancer (broker topology on a fresh inproc address)
\* is spawned with loadbal_callback = type(callback)().
MsRunDevice ==
    /\ ms.pc = "run_device"
    /\ lb.pc = "unspawned"
    /\ lb' = [lb EXCEPT !.pc = "input"]
    /\ ms' = [ms EXCEPT !.pc = "wait_lb"]
    /\ UNCHANGED <<srv, cbs, net, thr, sig, pool, rpc>>

\* loadbal_callback.wait(), before the catch_exceptions region.
MsWaitLb ==
    /\ ms.pc = "wait_lb"
    /\ CbWaitEnabled(ms.kind, cbs["lb"])
    /\ LET r == CbWaitResult(ms.kind, cbs["lb"])
       IN  ms' = IF r.kind = "raise"
                 THEN [ms EXCEPT !.pc = "done", !.exit = "raised",
                                 !.exc = r.exc]
                 ELSE [ms EXCEPT !.pc = "spawn"]
    /\ UNCHANGED <<srv, cbs, lb, net, thr, sig, pool, rpc>>

\* An exception raised inside `with callback.catch_exceptions():`.
MsFailed(exc) ==
    LET c == CatchExceptions(ms.kind, cbs["ms"], exc, TRUE)
    IN  /\ cbs' = [cbs EXCEPT !["ms"] = c.cb]
        /\ ms' = IF c.flow = "swallow"
                 THEN [ms EXCEPT !.pc = "done", !.exit = "raised",
                                 !.exc = UnboundLocalError("server_sockets")]
                 ELSE [ms EXCEPT !.pc = "done", !.exc = exc,
                                 !.exit = IF c.flow = "exit" THEN "died"
                                          ELSE "raised"]

\* for i in xrange(n_workers): server_callback.spawn(server.run, ...)
MsSpawn ==
    /\ ms.pc = "spawn"
    /\ srv' = [w \in Servers |-> [srv[w] EXCEPT !.pc = "create"]]
    /\ ms' = [ms EXCEPT !.pc = "wait_workers"]
    /\ UNCHANGED <<cbs, lb, net, thr, sig, pool, rpc>>

\* wait() that does not block on the event.
MsWaitWorker_NoBlock ==
    /\ ms.pc = "wait_workers"
    /\ ms.waited < ms.n_workers
    /\ LET r == CbWaitResult(ms.kind, cbs[WorkerId(ms.waited + 1)])
       IN  IF r.kind = "raise"
           THEN MsFailed(r.exc)
           ELSE /\ ms' = [ms EXCEPT !.waited = @ + 1,
                                    !.sockets = Append(@, r.value)]
                /\ cbs' = cbs
    /\ UNCHANGED <<srv, lb, net, thr, sig, pool, rpc>>

\* server_callback.wait() for the next worker, in spawning order.
MsWaitWorker ==
    /\ ms.pc = "wait_workers"
    /\ ms.waited < ms.n_workers
    /\ CbWaitEnabled(ms.kind, cbs[WorkerId(ms.waited + 1)])
    /\ LET r == CbWaitResult(ms.kind, cbs[WorkerId(ms.waited + 1)])
       IN  IF r.kind = "raise"
           THEN MsFailed(r.exc)
           ELSE /\ ms' = [ms EXCEPT !.waited = @ + 1,
                                    !.sockets = Append(@, r.value)]
                /\ cbs' = cbs
    /\ UNCHANGED <<srv, lb, net, thr, sig, pool, rpc>>

\* callback.send(server_sockets); return
MsSend ==
    /\ ms.pc = "wait_workers"
    /\ ms.waited = ms.n_workers
    /\ cbs' = [cbs EXCEPT !["ms"] = CbSend(ms.kind, @, ListV(ms.sockets))]
    /\ ms' = [ms EXCEPT !.pc = "done", !.exit = "returned"]
    /\ UNCHANGED <<srv, lb, net, thr, sig, pool, rpc>>

InitMulti ==
    /\ \E kind \in CallbackKinds, n \in 1..MaxWorkers :
          /\ ms = NewMultiServer(kind, n)
          /\ lb = NewLoadBalancer("broker", kind, "unspawned")
          /\ srv = [w \in WorkerIds(n) |->
                      NewServer(BackendAddr, TRUE, None, kind, "unspawned")]
          /\ cbs = [c \in WorkerIds(n) \cup {"lb", "ms"} |-> NewCallback]
    /\ net = [terminated |-> FALSE, bound |-> {}, frames |-> "add",
              left |-> 1]
    /\ thr = NoThreads
    /\ sig = << >>
    /\ pool = NoPool
    /\ rpc = NoRpc

NextMulti ==
    \/ MsRunDevice
    \/ MsWaitLb
    \/ MsSpawn
    \/ MsWaitWorker
    \/ MsSend
    \/ LbBindInput
    \/ LbBindOutput
    \/ LbReady
    \/ LbDevice
    \/ \E s \in Servers : SrvCreate(s)
    \/ \E s \in Servers : SrvBind(s)
    \/ \E s \in Servers : SrvReady(s)
    \/ \E s \in Servers : SrvRecv(s)
    \/ \E s \in Servers : SrvSend(s)
    \/ Terminate

SpecMulti == InitMulti /\ [][NextMulti]_vars

---------------------------------------------------------------------------
(* The Callback methods statement by statement, run by threads: one        *)
(* signaler calling send and throw, and waiting threads calling wait and   *)
(* reset.  The callback under test is cbs["cb"].                           *)

SignalerIds == {"s1"}
WaiterIds == {"w1", "w2"}
ThreadIds == SignalerIds \cup WaiterIds

NoResult == [kind |-> "none"]

\* pc: the statement of the Callback method the thread is at ("idle":
\* between calls); result: the outcome of its last wait() or throw();
\* blocked: its last wait() found the event down and had to block; mark:
\* how many calls had been completed when it entered its last call;
\* region: the die argument and the exception of the catch_exceptions
\* region it entered last (None: its last call was not a region); after:
\* it has executed the statement that follows that region.
NewThread ==
    [pc |-> "idle", sends |-> 0, waits |-> 0, resets |-> 0,
     blocked |-> FALSE, result |-> NoResult, mark |-> 0,
     region |-> None, after |-> FALSE]

\* The method calls the threads have made so far.
Calls ==
    LET n(t) == thr[t].sends + thr[t].waits + thr[t].resets
    IN  n("s1") + n("w1") + n("w2")

SomeError == Exc("tests", "SomeError", <<StrV("ABC")>>, "ABC", TRUE)
SentValues == {IntV(123), IntV(456)}
ThrownErrors == {SomeError, KeyboardInterrupt}

\* self.event.set(): the flag is raised and the threads blocked in
\* event.wait() are released.
EventSet(threads) ==
    [t \in ThreadIds |->
        IF threads[t].pc = "wait_blocked"
        THEN [threads[t] EXCEPT !.pc = "wait_exc"]
        ELSE threads[t]]

\* A send whose first statement raises the event, the value not yet
\* written.
SendStore_SetsEvent(t, value) ==
    /\ thr[t].pc = "idle"
    /\ Calls < MaxCalls
    /\ cbs' = [cbs EXCEPT !["cb"].event = TRUE]
    /\ thr' = [EventSet(thr) EXCEPT
                  ![t].pc = "send_set", ![t].sends = @ + 1,
                  ![t].mark = Len(sig),
                  ![t].region = None, ![t].after = FALSE]
    /\ sig' = sig
    /\ UNCHANGED <<srv, lb, ms, net, pool, rpc>>

\* send, first statement: self.value = value
SendStore(t, value) ==
    /\ thr[t].pc = "idle"
    /\ Calls < MaxCalls
    /\ cbs' = [cbs EXCEPT !["cb"].value = value]
    /\ thr' = [thr EXCEPT ![t].pc = "send_set", ![t].sends = @ + 1,
                          ![t].mark = Len(sig),
                          ![t].region = None, ![t].after = FALSE]
    /\ sig' = sig
    /\ UNCHANGED <<srv, lb, ms, net, pool, rpc>>

\* send, second statement: self.event.set()
SendSet(t) ==
    /\ thr[t].pc = "send_set"
    /\ cbs' = [cbs EXCEPT !["cb"].event = TRUE]
    /\ thr' = [EventSet(thr) EXCEPT ![t].pc = "idle"]
    /\ sig' = Append(sig, [op |-> "send", arg |-> cbs["cb"].value,
                            from |-> thr[t].mark])
    /\ UNCHANGED <<srv, lb, ms, net, pool, rpc>>

\* throw(exc) up to self.exc_info = exc_info: the exception object is
\* raised and caught by `except Exception` to capture a traceback, so one
\* that is not derived from Exception leaves throw instead.
ThrowStore(t, exc) ==
    /\ thr[t].pc = "idle"
    /\ Calls < MaxCalls
    /\ sig' = sig
    /\ IF exc.std
       THEN /\ cbs' = [cbs EXCEPT !["cb"].exc_info = exc]
            /\ thr' = [thr EXCEPT ![t].pc = "throw_set", ![t].sends = @ + 1,
                                  ![t].mark = Len(sig),
                                  ![t].region = None, ![t].after = FALSE]
       ELSE /\ cbs' = cbs
            /\ thr' = [thr EXCEPT ![t].sends = @ + 1,
                                  ![t].mark = Len(sig),
                                  ![t].region = None, ![t].after = FALSE,
                                  ![t].result = Raise(exc)]
    /\ UNCHANGED <<srv, lb, ms, net, pool, rpc>>

\* throw, last statement: self.event.set()
ThrowSet(t) ==
    /\ thr[t].pc = "throw_set"
    /\ cbs' = [cbs EXCEPT !["cb"].event = TRUE]
    /\ thr' = [EventSet(thr) EXCEPT ![t].pc = "idle"]
    /\ sig' = Append(sig, [op |-> "throw", arg |-> cbs["cb"].exc_info,
                            from |-> thr[t].mark])
    /\ UNCHANGED <<srv, lb, ms, net, pool, rpc>>

\* reset that leaves exc_info as it was.
ResetStep_KeepsError(t) ==
    /\ \/ /\ thr[t].pc = "idle"
          /\ thr[t].waits > 0
          /\ Calls < MaxCalls
          /\ cbs' = [cbs EXCEPT !["cb"].event = FALSE]
          /\ thr' = [thr EXCEPT ![t].pc = "reset_value", ![t].resets = @ + 1,
                                ![t].mark = Len(sig)]
          /\ sig' = sig
       \/ /\ thr[t].pc = "reset_value"
          /\ cbs' = [cbs EXCEPT !["cb"].value = None]
          /\ thr' = [thr EXCEPT ![t].pc = "reset_exc"]
          /\ sig' = sig
       \/ /\ thr[t].pc = "reset_exc"
          /\ cbs' = cbs
          /\ thr' = [thr EXCEPT ![t].pc = "idle"]
          /\ sig' = Append(sig, [op |-> "reset", arg |-> None,
                                  from |-> thr[t].mark])
    /\ UNCHANGED <<srv, lb, ms, net, pool, rpc>>

\* reset, statement by statement: self.event.clear(); self.value = None;
\* self.exc_info = None
ResetStep(t) ==
    /\ \/ /\ thr[t].pc = "idle"
          /\ thr[t].waits > 0
          /\ Calls < MaxCalls
          /\ cbs' = [cbs EXCEPT !["cb"].event = FALSE]
          /\ thr' = [thr EXCEPT ![t].pc = "reset_value", ![t].resets = @ + 1,
                                ![t].mark = Len(sig)]
          /\ sig' = sig
       \/ /\ thr[t].pc = "reset_value"
          /\ cbs' = [cbs EXCEPT !["cb"].value = None]
          /\ thr' = [thr EXCEPT ![t].pc = "reset_exc"]
          /\ sig' = sig
       \/ /\ thr[t].pc = "reset_exc"
          /\ cbs' = [cbs EXCEPT !["cb"].exc_info = None]
          /\ thr' = [thr EXCEPT ![t].pc = "idle"]
          /\ sig' = Append(sig, [op |-> "reset", arg |-> None,
                                  from |-> thr[t].mark])
    /\ UNCHANGED <<srv, lb, ms, net, pool, rpc>>

\* wait that goes on without looking at the event.
WaitEnter_NoBlock(t) ==
    /\ thr[t].pc = "idle"
    /\ Calls < MaxCalls
    /\ thr' = [thr EXCEPT ![t].waits = @ + 1, ![t].result = NoResult,
                          ![t].mark = Len(sig),
                          ![t].blocked = FALSE, ![t].pc = "wait_exc"]
    /\ UNCHANGED <<cbs, sig, srv, lb, ms, net, pool, rpc>>

\* wait, first statement: self.event.wait() returns at once when the flag
\* is up, and blocks until the next event.set() otherwise.
WaitEnter(t) ==
    /\ thr[t].pc = "idle"
    /\ Calls < MaxCalls
    /\ thr' = [thr EXCEPT ![t].waits = @ + 1, ![t].result = NoResult,
                          ![t].mark = Len(sig),
                          ![t].blocked = ~cbs["cb"].event,
                          ![t].pc = IF cbs["cb"].event THEN "wait_exc"
                                    ELSE "wait_blocked"]
    /\ UNCHANGED <<cbs, sig, srv, lb, ms, net, pool, rpc>>

\* wait, second statement: if self.exc_info: raise self.exc_info[1]
WaitCheck(t) ==
    /\ thr[t].pc = "wait_exc"
    /\ thr' = IF cbs["cb"].exc_info # None
              THEN [thr EXCEPT ![t].pc = "idle",
                               ![t].result = Raise(cbs["cb"].exc_info)]
              ELSE [thr EXCEPT ![t].pc = "wait_value"]
    /\ UNCHANGED <<cbs, sig, srv, lb, ms, net, pool, rpc>>

\* wait, last statement: return self.value
WaitReturn(t) ==
    /\ thr[t].pc = "wait_value"
    /\ thr' = [thr EXCEPT ![t].pc = "idle",
                          ![t].result = Return(cbs["cb"].value)]
    /\ UNCHANGED <<cbs, sig, srv, lb, ms, net, pool, rpc>>

\* Outcomes of the body of a catch_exceptions region: None when it ends
\* without an exception, else what it raises.
BodyOutcomes == {None, KeyError("key")} \cup ThrownErrors

\* with callback.catch_exceptions(die): the body runs; `except Exception`
\* takes what it raises when that is derived from Exception, anything else
\* leaves the region as it is, and without an exception the thread goes on
\* to the statement after the region.
RegionBody(t, die, exc) ==
    /\ thr[t].pc = "idle"
    /\ Calls < MaxCalls
    /\ thr' = [thr EXCEPT
          ![t].sends = @ + 1,
          ![t].mark = Len(sig),
          ![t].region = [die |-> die, exc |-> exc],
          ![t].after = (exc = None),
          ![t].result = IF exc = None THEN NoResult
                        ELSE IF exc.std THEN NoResult ELSE Raise(exc),
          ![t].pc = IF exc = None THEN "idle"
                    ELSE IF exc.std THEN "catch_store" ELSE "idle"]
    /\ UNCHANGED <<cbs, sig, srv, lb, ms, net, pool, rpc>>

\* self.throw() in the except clause, up to self.exc_info = exc_info: with
\* no argument throw takes sys.exc_info(), the exception being handled.
CatchStore(t) ==
    /\ thr[t].pc = "catch_store"
    /\ cbs' = [cbs EXCEPT !["cb"].exc_info = thr[t].region.exc]
    /\ thr' = [thr EXCEPT ![t].pc = "catch_set"]
    /\ UNCHANGED <<sig, srv, lb, ms, net, pool, rpc>>

\* self.throw() in the except clause, last statement: self.event.set()
CatchSet(t) ==
    /\ thr[t].pc = "catch_set"
    /\ cbs' = [cbs EXCEPT !["cb"].event = TRUE]
    /\ thr' = [EventSet(thr) EXCEPT ![t].pc = "catch_die"]
    /\ sig' = Append(sig, [op |-> "throw", arg |-> cbs["cb"].exc_info,
                            from |-> thr[t].mark])
    /\ UNCHANGED <<srv, lb, ms, net, pool, rpc>>

\* A die() that returns (as DummyCallback.die does): the region ends
\* normally and the thread goes on.
CatchDie_Returns(t) ==
    /\ thr[t].pc = "catch_die"
    /\ thr' = [thr EXCEPT ![t].pc = "idle", ![t].after = TRUE]
    /\ UNCHANGED <<cbs, sig, srv, lb, ms, net, pool, rpc>>

\* if die: self.die() (raise SystemExit, which ends the thread) else: raise
\* (the exception being handled leaves the region).
CatchDie(t) ==
    /\ thr[t].pc = "catch_die"
    /\ thr' = IF thr[t].region.die
              THEN [thr EXCEPT ![t].pc = "dead",
                               ![t].result = Raise(SystemExit)]
              ELSE [thr EXCEPT ![t].pc = "idle",
                               ![t].result = Raise(thr[t].region.exc)]
    /\ UNCHANGED <<cbs, sig, srv, lb, ms, net, pool, rpc>>

InitCallback ==
    /\ cbs = [c \in {"cb"} |-> NewCallback]
    /\ thr = [t \in ThreadIds |-> NewThread]
    /\ sig = << >>
    /\ pool = NoPool
    /\ rpc = NoRpc
    /\ srv = [s \in {} |-> None]
    /\ lb = NoLoadBalancer
    /\ ms = NoMultiServer
    /\ net = [terminated |-> FALSE, bound |-> {}, frames |-> "none", left |-> 0]

\* A step of a thread inside a method it has entered.
Continue(t) ==
    \/ SendSet(t)
    \/ ThrowSet(t)
    \/ thr[t].pc # "idle" /\ ResetStep(t)
    \/ WaitCheck(t)
    \/ WaitReturn(t)

NextCallback ==
    \/ \E t \in SignalerIds, v \in SentValues : SendStore(t, v)
    \/ \E t \in SignalerIds : SendSet(t)
    \/ \E t \in SignalerIds, e \in ThrownErrors : ThrowStore(t, e)
    \/ \E t \in SignalerIds : ThrowSet(t)
    \/ \E t \in WaiterIds : ResetStep(t)
    \/ \E t \in WaiterIds : WaitEnter(t)
    \/ \E t \in WaiterIds : WaitCheck(t)
    \/ \E t \in WaiterIds : WaitReturn(t)

SpecCallback == InitCallback /\ [][NextCallback]_vars

\* A thread that has entered a method runs it to its end.
FairCallback ==
    /\ SpecCallback
    /\ \A t \in ThreadIds : WF_vars(Continue(t))

---------------------------------------------------------------------------
(* Callback.catch_exceptions: the signaler runs catch_exceptions regions   *)
(* and calls send between them (as Server.run does after its region) while *)
(* the other threads wait on the callback.                                 *)

ContinueRegion(t) ==
    \/ SendSet(t)
    \/ CatchStore(t)
    \/ CatchSet(t)
    \/ CatchDie(t)
    \/ WaitCheck(t)
    \/ WaitReturn(t)

NextRegion ==
    \/ \E t \in SignalerIds, die \in BOOLEAN, e \in BodyOutcomes :
          RegionBody(t, die, e)
    \/ \E t \in SignalerIds : CatchStore(t)
    \/ \E t \in SignalerIds : CatchSet(t)
    \/ \E t \in SignalerIds : CatchDie(t)
    \/ \E t \in SignalerIds : SendStore(t, IntV(123))
    \/ \E t \in SignalerIds : SendSet(t)
    \/ \E t \in WaiterIds : WaitEnter(t)
    \/ \E t \in WaiterIds : WaitCheck(t)
    \/ \E t \in WaiterIds : WaitReturn(t)

SpecRegion == InitCallback /\ [][NextRegion]_vars

\* A thread that has entered a region or a method runs it to its end.
FairRegion ==
    /\ SpecRegion
    /\ \A t \in ThreadIds : WF_vars(ContinueRegion(t))

---------------------------------------------------------------------------
(* ObjectPool: get scopes entered by concurrent threads, statement by      *)
(* statement.  Objects are numbered in the order factory() makes them.     *)

PoolThreadIds == {"p1", "p2", "p3"}

\* OSError(errno.EWOULDBLOCK, os.strerror(errno.EWOULDBLOCK))
WouldBlock ==
    [Exc("exceptions", "OSError",
         <<StrV("EWOULDBLOCK"), StrV("Resource temporarily unavailable")>>,
         "Resource temporarily unavailable", TRUE)
     EXCEPT !.errno = "EWOULDBLOCK"]

\* What the body of a `with pool.get() as obj:` block raises.
BodyError == Exc("exceptions", "ValueError", <<StrV("body")>>, "body", TRUE)

\* ObjectPool(factory, maxsize): a semaphore of maxsize permits, a free
\* lock and an empty deque; made counts the calls of factory and gets the
\* get scopes entered; overlapped records that a get scope was entered
\* while another was open, and raised that a body ended with an exception.
NewPool(maxsize) ==
    [maxsize |-> maxsize, semaphore |-> maxsize, object_lock |-> "free",
     objects |-> << >>, made |-> 0, gets |-> 0,
     overlapped |-> FALSE, raised |-> FALSE]

\* pc: the statement of get the thread is at; blocking: the argument of
\* its get; obj: the object it has checked out (0: none); exc: the
\* exception leaving its get; waited: its get found no permit and had to
\* block; result: how its last get scope ended.
NewPoolThread ==
    [pc |-> "idle", blocking |-> TRUE, obj |-> 0, exc |-> None,
     waited |-> FALSE, result |-> NoResult]

\* with pool.get(blocking) as obj: the scope is entered.
GetEnter(t, blocking) ==
    /\ thr[t].pc = "idle"
    /\ pool.gets < MaxGets
    /\ pool' = [pool EXCEPT
                   !.gets = @ + 1,
                   !.overlapped =
                       @ \/ \E u \in PoolThreadIds \ {t} : thr[u].pc # "idle"]
    /\ thr' = [thr EXCEPT ![t] = [NewPoolThread EXCEPT
                  !.pc = "sem", !.blocking = blocking]]
    /\ UNCHANGED <<srv, cbs, lb, ms, net, sig, rpc>>

\* A semaphore acquire that never finds the semaphore at 0.
SemAcquire_Unbounded(t) ==
    /\ thr[t].pc \in {"sem", "sem_blocked"}
    /\ pool' = [pool EXCEPT !.semaphore = @ - 1]
    /\ thr' = [thr EXCEPT ![t].pc = "lock"]
    /\ UNCHANGED <<srv, cbs, lb, ms, net, sig, rpc>>

\* A semaphore acquire that ignores blocking=False and waits.
SemAcquire_AlwaysBlocks(t) ==
    /\ thr[t].pc \in {"sem", "sem_blocked"}
    /\ \/ /\ pool.semaphore > 0
          /\ pool' = [pool EXCEPT !.semaphore = @ - 1]
          /\ thr' = [thr EXCEPT ![t].pc = "lock"]
       \/ /\ pool.semaphore = 0
          /\ thr[t].pc = "sem"
          /\ pool' = pool
          /\ thr' = [thr EXCEPT ![t].pc = "sem_blocked", ![t].waited = TRUE]
    /\ UNCHANGED <<srv, cbs, lb, ms, net, sig, rpc>>

\* acquiring(self.semaphore, blocking): acquire takes a permit when there
\* is one; with none it waits for a release when blocking, and returns
\* False otherwise, on which acquiring raises OSError(EWOULDBLOCK).
SemAcquire(t) ==
    /\ thr[t].pc \in {"sem", "sem_blocked"}
    /\ \/ /\ pool.semaphore > 0
          /\ pool' = [pool EXCEPT !.semaphore = @ - 1]
          /\ thr' = [thr EXCEPT ![t].pc = "lock"]
       \/ /\ pool.semaphore = 0
          /\ thr[t].blocking
          /\ thr[t].pc = "sem"
          /\ pool' = pool
          /\ thr' = [thr EXCEPT ![t].pc = "sem_blocked", ![t].waited = TRUE]
       \/ /\ pool.semaphore = 0
          /\ ~thr[t].blocking
          /\ pool' = pool
          /\ thr' = [thr EXCEPT ![t].pc = "idle",
                                ![t].result = Raise(WouldBlock)]
    /\ UNCHANGED <<srv, cbs, lb, ms, net, sig, rpc>>

\* A lock acquire whose EWOULDBLOCK leaves get past the finally of the
\* semaphore's acquiring, the permit not given back.
LockAcquire_KeepsPermit(t) ==
    /\ thr[t].pc = "lock"
    /\ \/ /\ pool.object_lock = "free"
          /\ pool' = [pool EXCEPT !.object_lock = t]
          /\ thr' = [thr EXCEPT ![t].pc = "take"]
       \/ /\ pool.object_lock # "free"
          /\ ~thr[t].blocking
          /\ pool' = pool
          /\ thr' = [thr EXCEPT ![t].pc = "idle",
                                ![t].result = Raise(WouldBlock)]
    /\ UNCHANGED <<srv, cbs, lb, ms, net, sig, rpc>>

\* acquiring(self.object_lock, blocking): as above for the lock; the
\* OSError leaves through the finally of the semaphore's acquiring.
LockAcquire(t) ==
    /\ thr[t].pc = "lock"
    /\ \/ /\ pool.object_lock = "free"
          /\ pool' = [pool EXCEPT !.object_lock = t]
          /\ thr' = [thr EXCEPT ![t].pc = "take"]
       \/ /\ pool.object_lock # "free"
          /\ ~thr[t].blocking
          /\ pool' = pool
          /\ thr' = [thr EXCEPT ![t].pc = "release", ![t].exc = WouldBlock]
    /\ UNCHANGED <<srv, cbs, lb, ms, net, sig, rpc>>

\* A take that never looks at the free list.
Take_NeverReuses(t) ==
    /\ thr[t].pc = "take"
    /\ pool' = pool
    /\ thr' = [thr EXCEPT ![t].pc = "factory"]
    /\ UNCHANGED <<srv, cbs, lb, ms, net, sig, rpc>>

\* A take that hands out the first free object and leaves it in the deque.
Take_NoPop(t) ==
    /\ thr[t].pc = "take"
    /\ IF pool.objects # << >>
       THEN /\ pool' = pool
            /\ thr' = [thr EXCEPT ![t].pc = "unlock",
                                  ![t].obj = Head(pool.objects)]
       ELSE /\ pool' = pool
            /\ thr' = [thr EXCEPT ![t].pc = "factory"]
    /\ UNCHANGED <<srv, cbs, lb, ms, net, sig, rpc>>

\* if self.objects: obj = self.objects.popleft()   (else: see Factory)
Take(t) ==
    /\ thr[t].pc = "take"
    /\ IF pool.objects # << >>
       THEN /\ pool' = [pool EXCEPT !.objects = Tail(@)]
            /\ thr' = [thr EXCEPT ![t].pc = "unlock",
                                  ![t].obj = Head(pool.objects)]
       ELSE /\ pool' = pool
            /\ thr' = [thr EXCEPT ![t].pc = "factory"]
    /\ UNCHANGED <<srv, cbs, lb, ms, net, sig, rpc>>

\* else: obj = self.factory()
Factory(t) ==
    /\ thr[t].pc = "factory"
    /\ pool' = [pool EXCEPT !.made = @ + 1]
    /\ thr' = [thr EXCEPT ![t].pc = "unlock", ![t].obj = pool.made + 1]
    /\ UNCHANGED <<srv, cbs, lb, ms, net, sig, rpc>>

\* The lock's acquiring ends: finally: sync_primitive.release(); then
\* yield obj hands the object to the body, or the exception of the
\* factory goes on to the finally of the semaphore's acquiring.
Unlock(t) ==
    /\ thr[t].pc = "unlock"
    /\ pool' = [pool EXCEPT !.object_lock = "free"]
    /\ thr' = [thr EXCEPT ![t].pc = IF thr[t].exc = None THEN "body"
                                    ELSE "release"]
    /\ UNCHANGED <<srv, cbs, lb, ms, net, sig, rpc>>

\* A body whose exception leaves get without passing the finally of the
\* semaphore's acquiring.
BodyEnd_KeepsPermit(t, exc) ==
    /\ thr[t].pc = "body"
    /\ thr' = IF exc = None
              THEN [thr EXCEPT ![t].pc = "append"]
              ELSE [thr EXCEPT ![t].pc = "idle", ![t].obj = 0,
                               ![t].result = Raise(exc)]
    /\ pool' = [pool EXCEPT !.raised = @ \/ exc # None]
    /\ UNCHANGED <<srv, cbs, lb, ms, net, sig, rpc>>

\* The body of the with block ends.  When it raises, the exception is
\* thrown into get at `yield obj` and leaves through the finally of the
\* semaphore's acquiring, past self.objects.append(obj).
BodyEnd(t, exc) ==
    /\ thr[t].pc = "body"
    /\ thr' = IF exc = None
              THEN [thr EXCEPT ![t].pc = "append"]
              ELSE [thr EXCEPT ![t].pc = "release", ![t].exc = exc,
                               ![t].obj = 0]
    /\ pool' = [pool EXCEPT !.raised = @ \/ exc # None]
    /\ UNCHANGED <<srv, cbs, lb, ms, net, sig, rpc>>

\* self.objects.append(obj)
PoolAppend(t) ==
    /\ thr[t].pc = "append"
    /\ pool' = [pool EXCEPT !.objects = Append(@, thr[t].obj)]
    /\ thr' = [thr EXCEPT ![t].pc = "release", ![t].obj = 0]
    /\ UNCHANGED <<srv, cbs, lb, ms, net, sig, rpc>>

\* The semaphore's acquiring ends: finally: sync_primitive.release(), and
\* the get scope is left, normally or with the pending exception.
SemRelease(t) ==
    /\ thr[t].pc = "release"
    /\ pool' = [pool EXCEPT !.semaphore = @ + 1]
    /\ thr' = [thr EXCEPT ![t].pc = "idle", ![t].exc = None,
                          ![t].result = IF thr[t].exc = None
                                        THEN Return(None)
                                        ELSE Raise(thr[t].exc)]
    /\ UNCHANGED <<srv, cbs, lb, ms, net, sig, rpc>>

InitPool ==
    /\ \E maxsize \in 1..MaxSize : pool = NewPool(maxsize)
    /\ thr = [t \in PoolThreadIds |-> NewPoolThread]
    /\ sig = << >>
    /\ rpc = NoRpc
    /\ cbs = [c \in {} |-> NewCallback]
    /\ srv = [s \in {} |-> None]
    /\ lb = NoLoadBalancer
    /\ ms = NoMultiServer
    /\ net = [terminated |-> FALSE, bound |-> {}, frames |-> "none", left |-> 0]

\* A step of a thread inside a get scope it has entered.
ContinuePool(t) ==
    \/ SemAcquire(t)
    \/ LockAcquire(t)
    \/ Take(t)
    \/ Factory(t)
    \/ Unlock(t)
    \/ \E exc \in {None, BodyError} : BodyEnd(t, exc)
    \/ PoolAppend(t)
    \/ SemRelease(t)

NextPool ==
    \/ \E t \in PoolThreadIds, blocking \in BOOLEAN : GetEnter(t, blocking)
    \/ \E t \in PoolThreadIds : SemAcquire(t)
    \/ \E t \in PoolThreadIds : LockAcquire(t)
    \/ \E t \in PoolThreadIds : Take(t)
    \/ \E t \in PoolThreadIds : Factory(t)
    \/ \E t \in PoolThreadIds : Unlock(t)
    \/ \E t \in PoolThreadIds, exc \in {None, BodyError} : BodyEnd(t, exc)
    \/ \E t \in PoolThreadIds : PoolAppend(t)
    \/ \E t \in PoolThreadIds : SemRelease(t)

SpecPool == InitPool /\ [][NextPool]_vars

\* A thread that has entered a get scope runs it to its end, waiting
\* where the code waits.
FairPool ==
    /\ SpecPool
    /\ \A t \in PoolThreadIds : WF_vars(ContinuePool(t))

---------------------------------------------------------------------------
(* A Client call through the codec and a Server, and Registry dispatch.    *)

\* The registry of the server the client talks to.
RpcRegistry ==
    [name \in {"add", "math.add", "echo", "pair", "returns_none",
               "raises_error", "raises_keyerror"} |-> name]

\* Names and functions registered later with registry.method(f, name=...).
LateNames == {"method", "add"}
LateHandlers == {"echo", "raises_keyerror"}

\* Method names and positional arguments a caller may use.
RpcMethods == DOMAIN RpcRegistry \cup LateNames \cup {"doesnotexist", "math"}
RpcArgs ==
    {<< >>, <<IntV(3), IntV(4)>>, <<StrV("a")>>, <<ListV(<<IntV(1)>>)>>,
     <<TupleV(<<IntV(1), IntV(2)>>)>>, <<Object>>}

\* get_uuid()
Uuid == StrV("5f0c9e2a")

NewRpc ==
    [pc |-> "idle", registry |-> RpcRegistry, registered |-> 0,
     kind |-> "none", method |-> "", args |-> << >>,
     request |-> None, wire |-> None, response |-> None,
     invoked |-> << >>, outcome |-> NoResult]

\* BSON.encode(request) / BSON(frame).decode() for a request envelope.
EncodeRequest(request) ==
    [id |-> ToBSON(request.id), method |-> request.method,
     params |-> ToBSON(request.params)]

DecodeRequest(doc) ==
    [id |-> FromBSON(doc.id), method |-> doc.method,
     params |-> FromBSON(doc.params)]

\* BSON.encode(response) / BSON(frame).decode() for a response envelope;
\* error['args'] is the exception's args tuple.
EncodeResponse(response) ==
    LET error ==
            IF response.error = None THEN ToBSON(None)
            ELSE IF HasKey(response.error, "args")
            THEN [response.error EXCEPT
                     !.args = ToBSON(TupleV(response.error.args))]
            ELSE response.error
        doc == [result |-> ToBSON(response.result), error |-> error]
    IN  IF HasKey(response, "id")
        THEN doc @@ [id |-> ToBSON(response.id)]
        ELSE doc

DecodeResponse(doc) ==
    LET error ==
            IF HasKey(doc.error, "bson") THEN FromBSON(doc.error)
            ELSE IF HasKey(doc.error, "args")
            THEN [doc.error EXCEPT !.args = FromBSON(doc.error.args)]
            ELSE doc.error
        response == [result |-> FromBSON(doc.result), error |-> error]
    IN  IF HasKey(doc, "id")
        THEN response @@ [id |-> FromBSON(doc.id)]
        ELSE response

\* zrpc.client.Error(request, response)
ClientError(request, response) ==
    Exc("zrpc.client", "Error", <<request, response>>,
        response.error.message, TRUE)

\* A _process_response that hands back the whole response envelope.
ProcessResponse_ReturnsEnvelope(request, response) ==
    IF response.error = None
    THEN Return(response)
    ELSE Raise(ClientError(request, response))

\* Client._process_response(request, response)
ProcessResponse(request, response) ==
    IF response.error = None
    THEN Return(response.result)
    ELSE Raise(ClientError(request, response))

\* registry.method(f, name=name): self[name] = method
Register(name, h) ==
    /\ rpc.pc = "idle"
    /\ rpc.registered < MaxRegistrations
    /\ rpc' = [rpc EXCEPT
          !.registered = @ + 1,
          !.registry = [n \in DOMAIN rpc.registry \cup {name} |->
                           IF n = name THEN h ELSE rpc.registry[n]]]
    /\ UNCHANGED <<srv, cbs, lb, ms, net, thr, sig, pool>>

\* registry(method_name, *args), called directly.
Dispatch(method_name, args) ==
    /\ rpc.pc = "idle"
    /\ rpc' = [rpc EXCEPT
          !.pc = "done", !.kind = "dispatch",
          !.method = method_name, !.args = args,
          !.invoked = IF method_name \in DOMAIN rpc.registry
                      THEN <<[handler |-> rpc.registry[method_name],
                              args |-> args]>>
                      ELSE << >>,
          !.outcome = RegistryCall(rpc.registry, method_name, args)]
    /\ UNCHANGED <<srv, cbs, lb, ms, net, thr, sig, pool>>

\* Client.__call__(method, *params) up to self.socket.send: the request
\* envelope is built and encoded; BSON.encode raises on params it has no
\* encoding for.
ClientCall(method, params) ==
    /\ rpc.pc = "idle"
    /\ LET request == [id |-> Uuid, method |-> method,
                       params |-> TupleV(params)]
       IN  IF ValueEncodable(request.params)
           THEN rpc' = [rpc EXCEPT
                    !.pc = "sent", !.kind = "call",
                    !.method = method, !.args = params,
                    !.request = request,
                    !.wire = EncodeRequest(request)]
           ELSE rpc' = [rpc EXCEPT
                    !.pc = "done", !.kind = "call",
                    !.method = method, !.args = params,
                    !.request = request,
                    !.outcome = Raise(InvalidDocument)]
    /\ UNCHANGED <<srv, cbs, lb, ms, net, thr, sig, pool>>

\* One turn of the Server.run loop: the frame is decoded, process_message
\* builds the response and the response is encoded and sent; an exception
\* leaving process_message or BSON.encode ends run without a reply.
Serve ==
    /\ rpc.pc = "sent"
    /\ LET message == DecodeRequest(rpc.wire)
           r == process_message(rpc.registry, message)
           invoked == IF message.method \in DOMAIN rpc.registry
                      THEN <<[handler |-> rpc.registry[message.method],
                              args |-> message.params.items]>>
                      ELSE << >>
       IN  IF r.kind = "return" /\ ResponseEncodable(r.value)
           THEN rpc' = [rpc EXCEPT !.pc = "replied", !.invoked = invoked,
                                   !.wire = EncodeResponse(r.value)]
           ELSE rpc' = [rpc EXCEPT !.pc = "lost", !.invoked = invoked,
                                   !.wire = None]
    /\ UNCHANGED <<srv, cbs, lb, ms, net, thr, sig, pool>>

\* Client.__call__ from self.socket.recv() on: the reply is decoded and
\* handed to _process_response.
ClientRecv ==
    /\ rpc.pc = "replied"
    /\ LET response == DecodeResponse(rpc.wire)
       IN  rpc' = [rpc EXCEPT
               !.pc = "done", !.wire = None, !.response = response,
               !.outcome = ProcessResponse(rpc.request, response)]
    /\ UNCHANGED <<srv, cbs, lb, ms, net, thr, sig, pool>>

InitRpc ==
    /\ rpc = NewRpc
    /\ pool = NoPool
    /\ thr = NoThreads
    /\ sig = << >>
    /\ cbs = [c \in {} |-> NewCallback]
    /\ srv = [s \in {} |-> None]
    /\ lb = NoLoadBalancer
    /\ ms = NoMultiServer
    /\ net = [terminated |-> FALSE, bound |-> {}, frames |-> "none", left |-> 0]

NextRpc ==
    \/ \E name \in LateNames, h \in LateHandlers : Register(name, h)
    \/ \E m \in RpcMethods, args \in RpcArgs : Dispatch(m, args)
    \/ \E m \in RpcMethods, args \in RpcArgs : ClientCall(m, args)
    \/ Serve
    \/ ClientRecv

SpecRpc == InitRpc /\ [][NextRpc]_vars

---------------------------------------------------------------------------
(* Properties of Server.run (checked under Spec).                          *)

\* What wait() on a callback would do: block, return a value, raise.
CbState(cb) ==
    IF ~cb.event THEN "unset"
    ELSE IF cb.exc_info # None THEN "error-set"
    ELSE "value-set"

WellFormed(msg) ==
    /\ HasKey(msg, "method")
    /\ HasKey(msg, "params")
    /\ msg.params.tag = "list"

HandlerOutcome(msg) == RegistryCall(REGISTRY, msg.method, msg.params.items)

HandlerFails(msg) ==
    /\ HandlerOutcome(msg).kind = "raise"
    /\ HandlerOutcome(msg).exc.std

\* run was ended by an error of the transport (context termination included).
TransportFailed(st) == st.exc # None /\ IsZMQError(st.exc)

IsErrorResponse(r) == r # None /\ r.result = None /\ r.error # None

\* C1 as stated: every response sent has exactly one of result and error
\* non-null.
C1_ExactlyOne ==
    \A s \in Servers :
        srv[s].response # None =>
            (srv[s].response.result = None) # (srv[s].response.error = None)

\* C1 as amended: no response has both result and error non-null; a raising
\* handler gives result null and error non-null, a returning handler gives
\* error null and result equal to the returned value (null when the handler
\* returned null, so that both are null).
C1_AtMostOne ==
    \A s \in Servers :
        srv[s].response # None =>
            LET r == srv[s].response
                out == HandlerOutcome(srv[s].msg)
            IN  /\ ~(r.result # None /\ r.error # None)
                /\ out.kind = "raise" => r.result = None /\ r.error # None
                /\ out.kind = "return" =>
                        r.error = None /\ r.result = out.value

\* A response to a handler that returned null was sent.
C1_Witness ==
    \E s \in Servers :
        /\ srv[s].response # None
        /\ srv[s].response.result = None
        /\ srv[s].response.error = None

\* C2: on the success path and on the error path, the response carries the
\* request's id unchanged when the request has one, and no id key when the
\* request has none.
C2_IdPreserved ==
    \A s \in Servers :
        srv[s].response # None =>
            IF HasKey(srv[s].msg, "id")
            THEN /\ HasKey(srv[s].response, "id")
                 /\ srv[s].response.id = srv[s].msg.id
            ELSE ~HasKey(srv[s].response, "id")

\* An error response carrying the id of its request was sent.
C2_Witness ==
    \E s \in Servers :
        /\ IsErrorResponse(srv[s].response)
        /\ HasKey(srv[s].response, "id")
        /\ srv[s].response.id = StrV("xyz")

\* C3 as stated: receives and sends alternate, and whatever keys the decoded
\* request has (params, when present, being a sequence) and whatever its
\* handler returns or raises, run stops between a receive and its send only
\* when the transport fails.
C3_AnyRequestAnswered ==
    \A s \in Servers :
        /\ srv[s].sent <= srv[s].received
        /\ srv[s].received <= srv[s].sent + 1
        /\ srv[s].pc = "recv" => srv[s].received = srv[s].sent
        /\ (srv[s].pc = "done" /\ srv[s].received > srv[s].sent
            /\ srv[s].msg # None
            /\ (HasKey(srv[s].msg, "params") =>
                    srv[s].msg.params.tag = "list")) =>
                TransportFailed(srv[s])

\* C4 as stated: a request whose handler raises, or whose method is not
\* registered, does not end run: the error response is sent and the
\* server is back at its receive; run is over after such a request only
\* when the transport failed or the response sent was the last one
\* die_after allowed.
C4_ErrorsNotFatal ==
    \A s \in Servers :
        (WellFormed(srv[s].msg) /\ HandlerFails(srv[s].msg)) =>
            /\ srv[s].pc = "recv" => IsErrorResponse(srv[s].response)
            /\ srv[s].pc = "done" =>
                  \/ TransportFailed(srv[s])
                  \/ /\ srv[s].exit = "returned"
                     /\ IsErrorResponse(srv[s].response)
                     /\ srv[s].iter = IntV(0)

\* C5: no request is received before callback.send(socket) was made, and a
\* callback that is value-set holds the socket of a server that is bound
\* (connect false) or connected (connect true).
C5_ReadyBeforeServing ==
    \A s \in Servers :
        /\ (srv[s].received > 0 \/ srv[s].pc \in {"recv", "process"}) =>
              /\ srv[s].signalled
              /\ srv[s].kind = "Callback" => CbState(cbs[s]) = "value-set"
        /\ CbState(cbs[s]) = "value-set" =>
              /\ cbs[s].value = SocketV(s)
              /\ srv[s].socket =
                    IF srv[s].connect THEN "connected" ELSE "bound"

\* A server whose callback is value-set has received a request.
C5_Witness ==
    \E s \in Servers :
        /\ srv[s].kind = "Callback"
        /\ CbState(cbs[s]) = "value-set"
        /\ srv[s].received > 0

\* C6 as stated: after a failure to create, bind or connect the socket, for
\* every kind of callback, Server.run never signals and never receives, and
\* LoadBalancer.run never signals and never invokes the device; a Callback
\* is error-set.
C6_StartupFailureStops ==
    /\ \A s \in Servers :
          srv[s].failed_start =>
              /\ ~srv[s].signalled
              /\ srv[s].pc \notin {"recv", "process"}
              /\ srv[s].received = 0
              /\ srv[s].kind = "Callback" => CbState(cbs[s]) = "error-set"
    /\ lb.failed_start =>
          /\ ~lb.signalled
          /\ ~lb.device
          /\ lb.kind = "Callback" => CbState(cbs["lb"]) = "error-set"

\* C7 as stated: with die_after = n, n >= 0, run never receives more than n
\* requests, and when it leaves the loop by exhausting the iterator it has
\* received and answered exactly n and closed its socket.
C7_DiesAfterN ==
    \A s \in Servers :
        srv[s].die_after # None =>
            /\ srv[s].received <= srv[s].die_after.n
            /\ (srv[s].pc = "done" /\ srv[s].exit = "returned"
                /\ srv[s].exc = None) =>
                  /\ srv[s].received = srv[s].die_after.n
                  /\ srv[s].sent = srv[s].die_after.n
                  /\ srv[s].closed

---------------------------------------------------------------------------
(* Properties of MultiServer.run (checked under SpecMulti).                *)

StartupFailed == lb.failed_start \/ \E w \in Servers : srv[w].failed_start

\* C8: the composed callback is value-set only when the load balancer has
\* bound both sockets and every worker has connected its socket and
\* signalled its own callback.
C8_ReadyAfterAll ==
    CbState(cbs["ms"]) = "value-set" =>
        /\ lb.input_socket = "bound"
        /\ lb.output_socket = "bound"
        /\ CbState(cbs["lb"]) = "value-set"
        /\ \A w \in Servers :
              /\ srv[w].socket = "connected"
              /\ srv[w].signalled
              /\ CbState(cbs[w]) = "value-set"

\* The composed callback of a run with two workers is value-set.
C8_Witness ==
    /\ CbState(cbs["ms"]) = "value-set"
    /\ ms.n_workers = 2
    /\ ms.exit = "returned"

\* C9 as stated: with a Callback, once the load balancer or a worker has
\* failed to start, the composed callback is never value-set, and when
\* MultiServer.run is over it is error-set.
C9_FailureRouted ==
    (ms.kind = "Callback" /\ StartupFailed) =>
        /\ CbState(cbs["ms"]) # "value-set"
        /\ ms.pc = "done" => CbState(cbs["ms"]) = "error-set"

---------------------------------------------------------------------------
(* Properties of Callback (checked under FairCallback).                    *)

\* What wait() yields for a completed signal.
Expected(signal) ==
    IF signal.op = "send" THEN Return(signal.arg) ELSE Raise(signal.arg)

\* Exactly one send or throw call was made, it is complete, and no reset
\* was started.
OneSignalOnly ==
    /\ Len(sig) = 1
    /\ \A t \in SignalerIds : thr[t].sends = 1
    /\ \A t \in WaiterIds : thr[t].resets = 0

\* C10: a thread blocked in wait() sees the event down, and a thread gets
\* past event.wait() only with the event up (never while the callback is
\* unset); after one send(v) wait() returns v and after one throw(e) it
\* raises e; and a waiter that is blocked while a send or throw is being
\* made is eventually released and finishes its wait().
C10_WaitRendezvous ==
    /\ [](\A t \in WaiterIds :
            /\ thr[t].pc = "wait_blocked" => ~cbs["cb"].event
            /\ (thr[t].result # NoResult /\ OneSignalOnly) =>
                    thr[t].result = Expected(sig[1]))
    /\ [][\A t \in WaiterIds :
            (thr[t].pc \in {"idle", "wait_blocked"}
             /\ thr'[t].pc \in {"wait_exc", "wait_value"}) =>
                cbs'["cb"].event]_vars
    /\ \A t \in WaiterIds :
          (thr[t].pc = "wait_blocked"
           /\ \E s \in SignalerIds : thr[s].pc \in {"send_set", "throw_set"})
              ~> (thr[t].result # NoResult)

\* Both waiters had to block and were released by the one throw made.
C10_Witness ==
    /\ OneSignalOnly
    /\ \A t \in WaiterIds :
          /\ thr[t].blocked
          /\ thr[t].waits = 1
          /\ thr[t].result = Raise(SomeError)

\* C11 as stated: signals are one-shot until reset, so while no reset() has
\* been called every wait() that has finished yields the outcome of the
\* first completed send or throw, whatever send or throw was made after it.
C11_OneShot ==
    \A t \in WaiterIds :
        (/\ Len(sig) >= 1
         /\ \A w \in WaiterIds : thr[w].resets = 0
         /\ thr[t].result # NoResult) =>
            thr[t].result = Expected(sig[1])

\* The reset() logged as sig[i] ran alone: no send, throw or reset ended
\* while it ran, and every send, throw or reset that ended later or is
\* still running was entered after it had ended.
CleanReset(i) ==
    /\ sig[i].op = "reset"
    /\ sig[i].from = i - 1
    /\ \A j \in (i + 1)..Len(sig) : sig[j].from >= i
    /\ \A t \in ThreadIds :
          thr[t].pc \in {"send_set", "throw_set", "catch_store", "catch_set",
                         "reset_value", "reset_exc"}
              => thr[t].mark >= i

\* The signaler's last call is the one logged as sig[j].
LastSignal(j) ==
    /\ sig[j].op \in {"send", "throw"}
    /\ \A s \in SignalerIds :
          thr[s].pc = "idle" /\ thr[s].mark = sig[j].from

\* C12: once a reset() that ran alone has ended, the callback is unset and
\* a wait() entered then blocks; a wait() entered after the reset yields the
\* outcome of the one send or throw made since (never what was deposited
\* before the reset) as long as no further reset has been entered; and a
\* waiter blocked after the reset is released by the send or throw being
\* made.
C12_ResetRearms ==
    /\ []((Len(sig) >= 1 /\ CleanReset(Len(sig))) =>
            CbState(cbs["cb"]) = "unset")
    /\ [][\A t \in WaiterIds :
            (/\ Len(sig) >= 1 /\ CleanReset(Len(sig))
             /\ thr[t].pc = "idle" /\ thr'[t].pc # "idle") =>
                thr'[t].pc \in {"wait_blocked", "reset_value"}]_vars
    /\ [](\A t \in WaiterIds :
            (/\ Len(sig) >= 2 /\ CleanReset(Len(sig) - 1)
             /\ LastSignal(Len(sig))
             /\ \A w \in WaiterIds : thr[w].pc \notin {"reset_value", "reset_exc"}
             /\ thr[t].pc = "idle" /\ thr[t].mark >= Len(sig) - 1
             /\ thr[t].result # NoResult) =>
                thr[t].result = Expected(sig[Len(sig)]))
    /\ \A t \in WaiterIds :
          (/\ Len(sig) >= 1 /\ CleanReset(Len(sig))
           /\ thr[t].pc = "wait_blocked" /\ thr[t].mark >= Len(sig)
           /\ \E s \in SignalerIds : thr[s].pc \in {"send_set", "throw_set"})
              ~> (thr[t].result # NoResult)

\* A waiter got SomeError, reset the callback, waited again, had to block
\* and got the 456 sent after the reset.
C12_Witness ==
    /\ Len(sig) = 3
    /\ sig[1].op = "throw" /\ sig[1].arg = SomeError
    /\ CleanReset(2)
    /\ sig[3].op = "send"
    /\ thr["w1"].resets = 1 /\ thr["w1"].waits = 2
    /\ thr["w1"].blocked
    /\ thr["w1"].result = Return(IntV(456))

---------------------------------------------------------------------------
(* Properties of Callback.catch_exceptions (checked under FairRegion).     *)

\* The body of the region thread s entered last raised an exception
\* derived from Exception.
Caught(s) ==
    /\ thr[s].region # None
    /\ thr[s].region.exc # None
    /\ thr[s].region.exc.std

\* throw has deposited the exception of that region.
Deposited(s) ==
    \E j \in 1..Len(sig) :
        sig[j] = [op |-> "throw", arg |-> thr[s].region.exc,
                  from |-> thr[s].mark]

\* C13: an exception (derived from Exception) raised in the region is
\* deposited with throw before the thread leaves the region; the thread is
\* then ended by SystemExit when die is true and gets the same exception
\* re-raised when die is false, in neither case running the statement
\* after the region; what a wait() raises is an exception so deposited
\* (or being deposited, once the event is up from an earlier region),
\* and a waiter blocked while the region handles its exception is released
\* with it; a region whose body raises nothing leaves the callback as it
\* was and goes on to the statement after it.
C13_CatchExceptions ==
    /\ [](\A s \in SignalerIds :
            (Caught(s) /\ thr[s].pc \notin {"catch_store", "catch_set"}) =>
                /\ Deposited(s)
                /\ ~thr[s].after
                /\ thr[s].pc = "catch_die" =>
                        thr[s].result = NoResult
                /\ (thr[s].pc # "catch_die" /\ thr[s].region.die) =>
                        /\ thr[s].pc = "dead"
                        /\ thr[s].result = Raise(SystemExit)
                /\ (thr[s].pc # "catch_die" /\ ~thr[s].region.die) =>
                        /\ thr[s].pc = "idle"
                        /\ thr[s].result = Raise(thr[s].region.exc))
    /\ [](\A t \in WaiterIds :
            (thr[t].result # NoResult /\ thr[t].result.kind = "raise") =>
                \/ \E j \in 1..Len(sig) :
                      /\ sig[j].op = "throw"
                      /\ thr[t].result = Raise(sig[j].arg)
                \/ \E s \in SignalerIds :
                      /\ thr[s].pc = "catch_set"
                      /\ thr[t].result = Raise(thr[s].region.exc))
    /\ [][\A s \in SignalerIds :
            (/\ thr'[s].sends > thr[s].sends
             /\ thr'[s].region # None
             /\ thr'[s].region.exc = None) =>
                /\ cbs' = cbs
                /\ thr'[s].after
                /\ thr'[s].pc = "idle"]_vars
    /\ \A t \in WaiterIds :
          (/\ thr[t].pc = "wait_blocked"
           /\ \E s \in SignalerIds : thr[s].pc \in {"catch_store", "catch_set"})
              ~> (thr[t].result # NoResult /\ thr[t].result.kind = "raise")

\* The signaler left a first region (die false) with its KeyError
\* re-raised and was ended in a second one (die true) raising SomeError;
\* one waiter, blocked before the first, got the KeyError and the other
\* got SomeError.
C13_Witness ==
    /\ thr["s1"].sends = 2
    /\ thr["s1"].pc = "dead"
    /\ Len(sig) = 2
    /\ sig[1].arg = KeyError("key") /\ sig[2].arg = SomeError
    /\ thr["w1"].blocked /\ thr["w1"].result = Raise(KeyError("key"))
    /\ thr["w2"].result = Raise(SomeError)

---------------------------------------------------------------------------
(* Properties of ObjectPool (checked under SpecPool and FairPool).         *)

\* The objects checked out: handed to a thread and not yet re-added.
CheckedOut == {t \in PoolThreadIds : thr[t].obj # 0}

\* C14: with maxsize = K, at most K objects are checked out, the free list
\* holds at most K objects, and checked_out + len(free_list) <= K.
C14_PoolBound ==
    /\ Cardinality(CheckedOut) <= pool.maxsize
    /\ Len(pool.objects) <= pool.maxsize
    /\ Cardinality(CheckedOut) + Len(pool.objects) <= pool.maxsize

\* A pool at its bound: maxsize objects checked out (both objects of a
\* pool of maxsize 2, or the one of a pool of maxsize 1 while another
\* thread waits for a permit).
C14_Witness ==
    /\ Cardinality(CheckedOut) = pool.maxsize
    /\ \/ pool.maxsize = 2
       \/ \E t \in PoolThreadIds : thr[t].pc = "sem_blocked"

\* C15: an object checked out is not in the free list, no object is
\* checked out by two threads, and the free list holds no object twice.
C15_Exclusive ==
    /\ \A t \in PoolThreadIds :
          thr[t].obj # 0 =>
              /\ \A i \in 1..Len(pool.objects) : pool.objects[i] # thr[t].obj
              /\ \A u \in PoolThreadIds \ {t} : thr[u].obj # thr[t].obj
    /\ \A i, j \in 1..Len(pool.objects) :
          i # j => pool.objects[i] # pool.objects[j]

\* Two threads are in their bodies at once, with the two objects made for
\* them, and the free list is empty.
C15_Witness ==
    /\ \E t, u \in PoolThreadIds :
          /\ thr[t].pc = "body" /\ thr[t].obj = 1
          /\ thr[u].pc = "body" /\ thr[u].obj = 2
    /\ pool.objects = << >>

\* C16: a get(blocking=False) that finds no permit, or the lock taken,
\* fails with OSError(EWOULDBLOCK) without waiting and without keeping a
\* permit, which is what happens whenever maxsize objects are checked out;
\* only non-blocking gets fail so; a get(blocking=True) passes the
\* semaphore only by taking a permit, waits when there is none, and once a
\* holder has released it goes on and gets its object.
C16_WouldBlock ==
    /\ [][\A t \in PoolThreadIds :
            /\ (/\ ~thr[t].blocking /\ thr[t].pc = "sem"
                /\ pool.semaphore = 0 /\ thr'[t] # thr[t]) =>
                   /\ thr'[t].pc = "idle"
                   /\ thr'[t].result = Raise(WouldBlock)
                   /\ pool' = pool
            /\ (/\ ~thr[t].blocking /\ thr[t].pc = "lock"
                /\ pool.object_lock # "free" /\ thr'[t] # thr[t]) =>
                   /\ thr'[t].pc = "release"
                   /\ thr'[t].exc = WouldBlock
            /\ (thr[t].pc \in {"sem", "sem_blocked"} /\ thr'[t].pc = "lock") =>
                   /\ pool.semaphore > 0
                   /\ pool'.semaphore = pool.semaphore - 1
            /\ (/\ thr[t].blocking /\ thr[t].pc = "sem"
                /\ pool.semaphore = 0 /\ thr'[t] # thr[t]) =>
                   thr'[t].pc = "sem_blocked"]_vars
    /\ [](Cardinality(CheckedOut) = pool.maxsize => pool.semaphore = 0)
    /\ [](\A t \in PoolThreadIds :
            /\ thr[t].pc = "sem_blocked" => thr[t].blocking
            /\ (thr[t].exc = WouldBlock \/ thr[t].result = Raise(WouldBlock))
                   => (~thr[t].blocking /\ thr[t].obj = 0))
    /\ \A t \in PoolThreadIds :
          /\ (~thr[t].blocking /\ thr[t].pc \in {"sem", "lock"})
                 ~> (thr[t].pc \notin {"sem", "lock"})
          /\ (thr[t].blocking /\ thr[t].pc = "sem_blocked")
                 ~> (thr[t].pc = "body" /\ thr[t].obj # 0)

\* With maxsize 1 and the object checked out, a non-blocking get has
\* failed with EWOULDBLOCK while the holder is still in its body.
C16_Witness ==
    /\ pool.maxsize = 1
    /\ \E t, u \in PoolThreadIds :
          /\ ~thr[t].blocking /\ thr[t].result = Raise(WouldBlock)
          /\ thr[u].pc = "body" /\ thr[u].obj # 0

\* Every get scope entered has been left.
PoolQuiet == \A t \in PoolThreadIds : thr[t].pc = "idle"

\* C17 as stated: however the get scopes were left (body ended normally, or
\* with an exception), once all are left every permit is back and every
\* object that factory made is in the free list.
C17_ReleasedOnEveryExit ==
    PoolQuiet =>
        /\ pool.semaphore = pool.maxsize
        /\ Len(pool.objects) = pool.made

---------------------------------------------------------------------------
(* Properties of a Client call and of Registry dispatch (under SpecRpc).   *)

\* The method called is registered and the handler, given the caller's
\* arguments, returns a value the codec can encode.
ReturnsEncodable ==
    /\ rpc.method \in DOMAIN rpc.registry
    /\ LET h == CallHandler(rpc.registry[rpc.method], rpc.args)
       IN  h.kind = "return" /\ ValueEncodable(h.value)

\* The value as it comes back from the codec.
AsDecoded(v) == FromBSON(ToBSON(v))

\* No tuple in the value (lists of lists do not occur in RpcArgs).
RECURSIVE TupleFree(_)
TupleFree(v) ==
    CASE v.tag = "tuple" -> FALSE
      [] v.tag = "list" -> \A i \in 1..Len(v.items) : TupleFree(v.items[i])
      [] OTHER -> TRUE

\* C18 as stated: a finished Client call (with arguments the codec can
\* encode) of a method whose handler returns an encodable value for the
\* arguments returns a value equal to what the handler returns for them.
C18_RoundTrip ==
    (/\ rpc.kind = "call" /\ rpc.pc = "done"
     /\ ValueEncodable(TupleV(rpc.args))
     /\ ReturnsEncodable) =>
        rpc.outcome = CallHandler(rpc.registry[rpc.method], rpc.args)

\* C18, amended: with encodable arguments the call is answered and returns
\* what the codec makes of the value the handler returns for the arguments
\* as decoded (tuples arrive and come back as lists); this is the value
\* the handler returns for the caller's arguments when neither they nor it
\* hold a tuple.
C18_RoundTripCodec ==
    (rpc.kind = "call" /\ rpc.pc \in {"done", "lost"}
     /\ ValueEncodable(TupleV(rpc.args))
     /\ rpc.method \in DOMAIN rpc.registry) =>
        LET h == rpc.registry[rpc.method]
            decoded == AsDecoded(TupleV(rpc.args)).items
            served == CallHandler(h, decoded)
            direct == CallHandler(h, rpc.args)
        IN  /\ (served.kind = "return" /\ ValueEncodable(served.value)) =>
                   /\ rpc.pc = "done"
                   /\ rpc.outcome = Return(AsDecoded(served.value))
            /\ (/\ direct.kind = "return" /\ ValueEncodable(direct.value)
                /\ TupleFree(TupleV(rpc.args)) /\ TupleFree(direct.value)) =>
                   /\ rpc.pc = "done"
                   /\ rpc.outcome = direct

\* add(3, 4) returned 7 to the client, through the codec and the server.
C18_Witness ==
    /\ rpc.kind = "call" /\ rpc.pc = "done"
    /\ rpc.method = "add" /\ rpc.args = <<IntV(3), IntV(4)>>
    /\ rpc.registry["add"] = "add"
    /\ rpc.invoked = <<[handler |-> "add", args |-> <<IntV(3), IntV(4)>>]>>
    /\ rpc.outcome = Return(IntV(7))

\* The response is the error response for a missing method named name.
IsMissingMethod(response, name) ==
    /\ response.result = None
    /\ response.error # None
    /\ response.error.type = "zrpc.exceptions.MissingMethod"
    /\ response.error.message = "MissingMethod: " \o name
    /\ HasKey(response.error, "args")
    /\ response.error.args = ListV(<<StrV(name)>>)

\* C19: a request whose method is not a key of the registry is answered,
\* with result null and an error record of type MissingMethod whose args
\* are [method]; a request whose method is a key, dotted or not, is never
\* answered so: the name is looked up whole.
C19_MissingMethod ==
    (rpc.kind = "call" /\ rpc.pc \in {"done", "lost"}
     /\ ValueEncodable(TupleV(rpc.args))) =>
        IF rpc.method \notin DOMAIN rpc.registry
        THEN /\ rpc.pc = "done"
             /\ IsMissingMethod(rpc.response, rpc.method)
             /\ rpc.outcome = Raise(ClientError(rpc.request, rpc.response))
        ELSE rpc.pc = "done" =>
                 (rpc.response.error # None =>
                      rpc.response.error.type # "zrpc.exceptions.MissingMethod")

\* "math" was called on a registry that has "math.add" and no "math": the
\* client got the MissingMethod error for "math".
C19_Witness ==
    /\ rpc.kind = "call" /\ rpc.pc = "done"
    /\ rpc.method = "math"
    /\ "math.add" \in DOMAIN rpc.registry
    /\ rpc.args = <<IntV(3), IntV(4)>>
    /\ IsMissingMethod(rpc.response, "math")

\* C20: registry(name, *args) raises MissingMethod(name) exactly when name
\* is not registered; when it is, the method registered under name is
\* called once with args and the outcome of the dispatch is the outcome of
\* that call, an exception it raises included (KeyError too); and only a
\* registration changes the registry.
C20_Dispatch ==
    /\ [](rpc.kind = "dispatch" =>
            /\ rpc.outcome = Raise(MissingMethod(rpc.method))
                   <=> rpc.method \notin DOMAIN rpc.registry
            /\ rpc.method \in DOMAIN rpc.registry =>
                   /\ rpc.outcome =
                          CallHandler(rpc.registry[rpc.method], rpc.args)
                   /\ rpc.invoked =
                          <<[handler |-> rpc.registry[rpc.method],
                             args |-> rpc.args]>>
            /\ rpc.method \notin DOMAIN rpc.registry =>
                   rpc.invoked = << >>)
    /\ [][rpc'.registry # rpc.registry =>
            /\ rpc'.registered = rpc.registered + 1
            /\ rpc'.pc = "idle" /\ rpc.pc = "idle"]_vars

\* A method registered as "method" raised KeyError and the dispatch
\* raised that KeyError.
C20_Witness ==
    /\ rpc.kind = "dispatch"
    /\ rpc.method = "method"
    /\ rpc.registered = 1
    /\ "method" \in DOMAIN rpc.registry
    /\ rpc.registry["method"] = "raises_keyerror"
    /\ rpc.invoked = <<[handler |-> "raises_keyerror", args |-> << >>]>>
    /\ rpc.outcome = Raise(KeyError("missing"))

---------------------------------------------------------------------------
(* LoadBalancer.run statement by statement, with its `output` argument as  *)
(* a value.  The balancer is lb, its callback cbs["lb"]; sig is the log of *)
(* the calls run has made on its sockets, its callback and the device.     *)

MaxNodes == 2       \* longest list of output addresses tried

NodeAddr(i) == "inproc://worker" \o ToString(i)

\* The addresses 'inproc://worker0', ... of n downstream servers.
NodeAddrs(n) == [i \in 1..n |-> StrV(NodeAddr(i - 1))]

\* The `output` arguments tried: a single address, and lists and tuples of
\* addresses.
Outputs ==
    {StrV(BackendAddr)}
    \cup {ListV(NodeAddrs(n)) : n \in 0..MaxNodes}
    \cup {TupleV(NodeAddrs(n)) : n \in 1..MaxNodes}

\* hasattr(self.output, '__iter__'): lists and tuples have the attribute,
\* a str has not.
HasIter(v) == v.tag \in {"list", "tuple"}

InputSocket == SocketV("input_socket")
OutputSocket == SocketV("output_socket")

\* pc: the statement run is at; next: the index of the node the connect
\* loop is at; exit: how the try statement around the device ended;
\* left: how run ended for its caller.
NewBalancer(input, output, kind) ==
    [pc |-> "get_input", input |-> input, output |-> output, kind |-> kind,
     input_socket |-> "unassigned", output_socket |-> "unassigned",
     next |-> 1, input_closed |-> FALSE, output_closed |-> FALSE,
     failed_start |-> FALSE, exit |-> "none", left |-> "none",
     exc |-> None]

\* A statement inside `with callback.catch_exceptions():` raised exc.
BalFailed(st, exc) ==
    LET c == CatchExceptions(st.kind, cbs["lb"], exc, TRUE)
        st1 == [st EXCEPT !.failed_start = TRUE, !.exc = exc]
    IN  /\ cbs' = [cbs EXCEPT !["lb"] = c.cb]
        /\ lb' = IF c.flow = "swallow"
                 THEN [st1 EXCEPT !.pc = "send"]
                 ELSE [st1 EXCEPT !.pc = "done",
                                  !.left = IF c.flow = "exit" THEN "died"
                                           ELSE "raised"]

\* A socket call fails with one of the errors possible now.
BalSocketError(errnos) ==
    /\ \E errno \in errnos :
          /\ ErrnoPossible(errno)
          /\ BalFailed(lb, ZMQError(errno))
    /\ UNCHANGED <<net, sig>>

\* input_socket = self.get_socket(zmq.XREP)
BalGetInput ==
    /\ lb.pc = "get_input"
    /\ \/ /\ ~net.terminated
          /\ lb' = [lb EXCEPT !.pc = "bind_input", !.input_socket = "created"]
          /\ UNCHANGED <<cbs, net, sig>>
       \/ BalSocketError(Errnos)
    /\ UNCHANGED <<srv, ms, thr, pool, rpc>>

\* input_socket.bind(self.input)
BalBindInput ==
    /\ lb.pc = "bind_input"
    /\ \/ /\ ~net.terminated
          /\ lb' = [lb EXCEPT !.pc = "get_output", !.input_socket = "bound"]
          /\ net' = [net EXCEPT !.bound = @ \cup {lb.input}]
          /\ sig' = Append(sig, [op |-> "bind", socket |-> InputSocket,
                                  addr |-> StrV(lb.input)])
          /\ cbs' = cbs
       \/ BalSocketError(Errnos)
    /\ UNCHANGED <<srv, ms, thr, pool, rpc>>

\* The statement after output_socket = ...: the connect loop for an
\* iterable output (over at once when it is empty), the bind otherwise.
BalSelect(output) ==
    IF HasIter(output)
    THEN IF Len(output.items) = 0 THEN "send" ELSE "connect"
    ELSE "bind_output"

\* output_socket = self.get_socket(zmq.XREQ), and the test of
\* hasattr(self.output, '__iter__')
BalGetOutput ==
    /\ lb.pc = "get_output"
    /\ \/ /\ ~net.terminated
          /\ lb' = [lb EXCEPT !.pc = BalSelect(lb.output),
                              !.output_socket = "created"]
          /\ UNCHANGED <<cbs, net, sig>>
       \/ BalSocketError(Errnos)
    /\ UNCHANGED <<srv, ms, thr, pool, rpc>>

\* A connect loop that ends after its first node.
BalConnect_FirstOnly ==
    /\ lb.pc = "connect"
    /\ \/ /\ ~net.terminated
          /\ lb' = [lb EXCEPT !.next = @ + 1, !.pc = "send",
                              !.output_socket = "connected"]
          /\ sig' = Append(sig, [op |-> "connect", socket |-> OutputSocket,
                                  addr |-> lb.output.items[lb.next]])
          /\ UNCHANGED <<cbs, net>>
       \/ BalSocketError(Errnos \cup {"ECONNREFUSED"})
    /\ UNCHANGED <<srv, ms, thr, pool, rpc>>

\* for node in self.output: output_socket.connect(node), one node a step
BalConnect ==
    /\ lb.pc = "connect"
    /\ \/ /\ ~net.terminated
          /\ lb' = [lb EXCEPT !.next = @ + 1,
                              !.pc = IF lb.next = Len(lb.output.items)
                                     THEN "send" ELSE "connect",
                              !.output_socket = "connected"]
          /\ sig' = Append(sig, [op |-> "connect", socket |-> OutputSocket,
                                  addr |-> lb.output.items[lb.next]])
          /\ UNCHANGED <<cbs, net>>
       \/ BalSocketError(Errnos \cup {"ECONNREFUSED"})
    /\ UNCHANGED <<srv, ms, thr, pool, rpc>>

\* output_socket.bind(self.output)
BalBindOutput ==
    /\ lb.pc = "bind_output"
    /\ \/ /\ ~net.terminated
          /\ lb' = [lb EXCEPT !.pc = "send", !.output_socket = "bound"]
          /\ net' = [net EXCEPT !.bound = @ \cup {lb.output.s}]
          /\ sig' = Append(sig, [op |-> "bind", socket |-> OutputSocket,
                                  addr |-> lb.output])
          /\ cbs' = cbs
       \/ BalSocketError(Errnos)
    /\ UNCHANGED <<srv, ms, thr, pool, rpc>>

\* callback.send((input_socket, output_socket)): a local that was never
\* assigned raises UnboundLocalError, outside every region of run.
BalSend ==
    /\ lb.pc = "send"
    /\ IF "unassigned" \in {lb.input_socket, lb.output_socket}
       THEN /\ lb' = [lb EXCEPT !.pc = "done", !.left = "raised",
                                !.exc = UnboundLocalError("output_socket")]
            /\ UNCHANGED <<cbs, sig>>
       ELSE /\ cbs' = [cbs EXCEPT !["lb"] =
                          CbSend(lb.kind, @,
                                 TupleV(<<InputSocket, OutputSocket>>))]
            /\ sig' = Append(sig,
                        [op |-> "send",
                         arg |-> TupleV(<<InputSocket, OutputSocket>>)])
            /\ lb' = [lb EXCEPT !.pc = "device"]
    /\ UNCHANGED <<srv, ms, net, thr, pool, rpc>>

\* device(zmq.QUEUE, input_socket, output_socket) is called, inside the
\* nested with block.
BalDevice ==
    /\ lb.pc = "device"
    /\ lb' = [lb EXCEPT !.pc = "in_device"]
    /\ sig' = Append(sig, [op |-> "device", frontend |-> InputSocket,
                            backend |-> OutputSocket])
    /\ UNCHANGED <<srv, cbs, ms, net, thr, pool, rpc>>

\* device(...) ends with `out`; the except clauses decide how the try
\* statement ends, closing(output_socket) and closing(input_socket) close
\* the sockets, and the logger's region is left.
BalDeviceEnd ==
    /\ lb.pc = "in_device"
    /\ \E out \in DeviceOutcomes :
          /\ out.kind = "raise" /\ IsZMQError(out.exc)
                => ErrnoPossible(out.exc.errno)
          /\ lb' = [lb EXCEPT !.pc = "done",
                              !.input_closed = TRUE, !.output_closed = TRUE,
                              !.exit = LbDeviceExit(out),
                              !.left = LoggedBlock(LbDeviceExit(out)),
                              !.exc = IF out.kind = "raise" THEN out.exc
                                      ELSE lb.exc]
    /\ UNCHANGED <<srv, cbs, ms, net, thr, sig, pool, rpc>>

InitLoadBal ==
    /\ \E output \in Outputs, kind \in CallbackKinds :
          lb = NewBalancer(PublicAddr, output, kind)
    /\ cbs = [c \in {"lb"} |-> NewCallback]
    /\ net = [terminated |-> FALSE, bound |-> {}, frames |-> "none",
              left |-> 0]
    /\ sig = << >>
    /\ srv = [s \in {} |-> None]
    /\ ms = NoMultiServer
    /\ thr = NoThreads
    /\ pool = NoPool
    /\ rpc = NoRpc

NextLoadBal ==
    \/ BalGetInput
    \/ BalBindInput
    \/ BalGetOutput
    \/ BalConnect
    \/ BalBindOutput
    \/ BalSend
    \/ BalDevice
    \/ BalDeviceEnd
    \/ Terminate

SpecLoadBal == InitLoadBal /\ [][NextLoadBal]_vars

---------------------------------------------------------------------------
(* Properties of LoadBalancer.run (checked under SpecLoadBal).             *)

\* The socket calls that set up the topology `output` selects, in order.
Setup(input, output) ==
    <<[op |-> "bind", socket |-> InputSocket, addr |-> StrV(input)]>>
    \o (IF output.tag = "str"
        THEN <<[op |-> "bind", socket |-> OutputSocket, addr |-> output]>>
        ELSE [i \in 1..Len(output.items) |->
                [op |-> "connect", socket |-> OutputSocket,
                 addr |-> output.items[i]]])

\* The first n entries of a log (all of it when it is shorter).
Prefix(log, n) == SubSeq(log, 1, IF n < Len(log) THEN n ELSE Len(log))

\* The positions of the log that hold a call of `op`.
LogOf(op) == {i \in 1..Len(sig) : sig[i].op = op}

\* C21: output selects the topology: when no bind or connect has failed and
\* run has got past them, the socket calls made are the bind of the
\* frontend to input followed by a connect of the backend to every address
\* of a list, in order, or by the bind of the backend to a single address;
\* a ready-callback that is value-set holds the (frontend, backend) pair
\* and was sent after all of these calls; and the device is invoked only
\* after callback.send was called.
C21_Topology ==
    /\ (~lb.failed_start
        /\ lb.pc \in {"send", "device", "in_device", "done"}) =>
            Prefix(sig, Len(Setup(lb.input, lb.output)))
                = Setup(lb.input, lb.output)
    /\ \A i \in LogOf("send") :
          /\ sig[i].arg = TupleV(<<InputSocket, OutputSocket>>)
          /\ \A j \in LogOf("device") : i < j
          /\ ~lb.failed_start =>
                Prefix(sig, i - 1) = Setup(lb.input, lb.output)
    /\ \A j \in LogOf("device") : \E i \in LogOf("send") : i < j
    /\ CbState(cbs["lb"]) = "value-set" =>
          /\ cbs["lb"].value = TupleV(<<InputSocket, OutputSocket>>)
          /\ \E i \in LogOf("send") :
                Prefix(sig, i - 1) = Setup(lb.input, lb.output)
          /\ lb.input \in net.bound
          /\ lb.output.tag = "str" => lb.output.s \in net.bound

\* A proxy over two nodes has signalled its callback and entered the
\* device.
C21_Witness ==
    /\ lb.output = ListV(NodeAddrs(2))
    /\ CbState(cbs["lb"]) = "value-set"
    /\ lb.pc = "in_device"
    /\ Len(sig) = 5

---------------------------------------------------------------------------
(* The shutdown of a running MultiServer: the threads MultiServer.run has  *)
(* started, from the state a successful start leaves them in, until the    *)
(* context is terminated and they end.                                     *)

\* The workers' sockets, in spawning order.
WorkerSockets(n) == [i \in 1..n |-> SocketV(WorkerId(i))]

\* MultiServer.run has returned, the load balancer is in its device and
\* every worker is at its first receive.
Started ==
    /\ \E kind \in CallbackKinds, n \in 1..MaxWorkers :
          /\ ms = [NewMultiServer(kind, n) EXCEPT
                      !.pc = "done", !.exit = "returned", !.waited = n,
                      !.sockets = WorkerSockets(n)]
          /\ lb = [NewLoadBalancer("broker", kind, "device") EXCEPT
                      !.input_socket = "bound", !.output_socket = "bound",
                      !.signalled = TRUE, !.device = TRUE]
          /\ srv = [w \in WorkerIds(n) |->
                      [NewServer(BackendAddr, TRUE, None, kind, "recv") EXCEPT
                          !.socket = "connected", !.signalled = TRUE]]
          /\ cbs = [c \in WorkerIds(n) \cup {"lb", "ms"} |->
                      CbSend(kind, NewCallback,
                             IF c = "lb" THEN SocketV("lb")
                             ELSE IF c = "ms" THEN ListV(WorkerSockets(n))
                             ELSE SocketV(c))]
    /\ net = [terminated |-> FALSE, bound |-> {PublicAddr, BackendAddr},
              frames |-> "add", left |-> 1]
    /\ thr = NoThreads
    /\ sig = << >>
    /\ pool = NoPool
    /\ rpc = NoRpc

NextShutdown ==
    \/ \E s \in Servers : SrvRecv(s)
    \/ \E s \in Servers : SrvSend(s)
    \/ LbDevice
    \/ Terminate

SpecShutdown == Started /\ [][NextShutdown]_vars

\* A thread that is at a statement of run executes it, and a blocking call
\* on a socket of a terminated context returns.
FairShutdown ==
    /\ SpecShutdown
    /\ WF_vars(net.terminated /\ LbDevice)
    /\ \A w \in WorkerIds(MaxWorkers) :
          /\ WF_vars(w \in Servers /\ net.terminated /\ SrvRecv(w))
          /\ WF_vars(w \in Servers /\ SrvSend(w))

---------------------------------------------------------------------------
(* Properties of the shutdown of a MultiServer (checked under             *)
(* FairShutdown).                                                          *)

\* The load balancer is in its device and every worker is in its loop.
Running ==
    /\ lb.pc = "device"
    /\ \A w \in Servers : srv[w].pc \in {"recv", "process"}

\* The thread's run ended on the terminated context: its try statement
\* caught a ZMQError with errno ETERM.
EndedByTermination(st) ==
    /\ st.pc = "done"
    /\ st.closed
    /\ st.exit = "returned"
    /\ st.exc = ZMQError("ETERM")

\* C22: once the context of a running MultiServer (the device entered,
\* every worker in its loop) is terminated, no worker receives or answers a
\* request any more, a thread that ends by a transport error ends by the
\* terminated-context error, and eventually each of the 1+N threads has
\* left its loop without re-raising, with its sockets closed: every worker
\* by the terminated-context error, the load balancer by that error (or by
\* an interrupt or a return of the device routine).
C22_Shutdown ==
    /\ [][net.terminated =>
            \A w \in Servers :
                /\ srv'[w].received = srv[w].received
                /\ srv'[w].sent = srv[w].sent]_vars
    /\ [][(Running /\ net.terminated) =>
            /\ \A w \in Servers :
                  srv'[w].pc = "done" => EndedByTermination(srv'[w])
            /\ lb'.pc = "done" =>
                  /\ lb'.closed
                  /\ lb'.exit = "returned"]_vars
    /\ (Running /\ net.terminated) ~>
            /\ lb.pc = "done" /\ lb.closed /\ lb.exit = "returned"
            /\ \A w \in Servers : EndedByTermination(srv[w])

\* A MultiServer with two workers was terminated while running, and its
\* three threads have ended.
C22_Witness ==
    /\ ms.n_workers = 2
    /\ ms.exit = "returned"
    /\ net.terminated
    /\ lb.pc = "done" /\ lb.exc = ZMQError("ETERM")
    /\ \A w \in Servers :
          EndedByTermination(srv[w]) /\ srv[w].signalled
    /\ \E w \in Servers : srv[w].sent = 1

---------------------------------------------------------------------------
(* The client's Error classes (lib/zrpc/client.py): the class cache of the *)
(* metaclass, kept in rpc.  A class is a number, 0 the root class Error;   *)
(* bases[c] is the class that class c was derived from.  An error type     *)
(* string is the sequence of its dot-separated parts.                      *)

MaxLookups == 3     \* lookups in the class cache made in a run

ErrorTypes ==
    {<<"exceptions", "TypeError">>, <<"TypeError">>, <<"other", "TypeError">>,
     <<"exceptions", "ValueError">>,
     <<"zrpc", "exceptions", "MissingMethod">>}

ErrorRoot == 0

\* error_type.split('.')[-1]
GenericType(error_type) == <<error_type[Len(error_type)]>>

\* issubclass(c, d)
RECURSIVE IsSubclass(_, _, _)
IsSubclass(bases, c, d) ==
    \/ c = d
    \/ c # ErrorRoot /\ IsSubclass(bases, bases[c], d)

\* _get_error_cls that derives the fully-qualified class from cls, as it
\* does the generic one.
GetErrorCls_BothFromCls(cache, bases, cls, error_type) ==
    LET generic_type == GenericType(error_type)
        c1 == IF generic_type \in DOMAIN cache THEN cache
              ELSE cache @@ (generic_type :> Len(bases) + 1)
        b1 == IF generic_type \in DOMAIN cache THEN bases
              ELSE Append(bases, cls)
        c2 == IF error_type \in DOMAIN c1 THEN c1
              ELSE c1 @@ (error_type :> Len(b1) + 1)
        b2 == IF error_type \in DOMAIN c1 THEN b1
              ELSE Append(b1, cls)
    IN  [cache |-> c2, bases |-> b2, result |-> c2[error_type]]

\* Error.__metaclass__._get_error_cls(cls, error_type): the cache and the
\* classes after the call, and the class returned.
GetErrorCls(cache, bases, cls, error_type) ==
    LET generic_type == GenericType(error_type)
        c1 == IF generic_type \in DOMAIN cache THEN cache
              ELSE cache @@ (generic_type :> Len(bases) + 1)
        b1 == IF generic_type \in DOMAIN cache THEN bases
              ELSE Append(bases, cls)
        c2 == IF error_type \in DOMAIN c1 THEN c1
              ELSE c1 @@ (error_type :> Len(b1) + 1)
        b2 == IF error_type \in DOMAIN c1 THEN b1
              ELSE Append(b1, c1[generic_type])
    IN  [cache |-> c2, bases |-> b2, result |-> c2[error_type]]

\* last: the type string and the result of the last lookup; first: what
\* the first lookup of each type string returned; raised: the type string
\* and the class of the last Error instance made.
NewErrors ==
    [pc |-> "errors", cache |-> << >>, bases |-> << >>, lookups |-> 0,
     last |-> None, first |-> << >>, raised |-> None]

\* The classes there are: Error and the cached ones.
ErrorClasses == 0..Len(rpc.bases)

\* cls[error_type] or cls.<name>: __getitem__ and __getattr__ of the
\* metaclass.
ErrLookup(cls, error_type) ==
    /\ rpc.pc = "errors"
    /\ rpc.lookups < MaxLookups
    /\ LET r == GetErrorCls(rpc.cache, rpc.bases, cls, error_type)
       IN  rpc' = [rpc EXCEPT
                !.cache = r.cache, !.bases = r.bases,
                !.lookups = @ + 1,
                !.last = [type |-> error_type, cls |-> r.result],
                !.first = IF error_type \in DOMAIN @ THEN @
                          ELSE @ @@ (error_type :> r.result)]
    /\ UNCHANGED <<srv, cbs, lb, ms, net, thr, sig, pool>>

\* cls(request, response), the response's error being of error_type:
\* Error.__new__ makes an instance of cls._get_error_cls(error_type).
ErrNew(cls, error_type) ==
    /\ rpc.pc = "errors"
    /\ rpc.lookups < MaxLookups
    /\ LET r == GetErrorCls(rpc.cache, rpc.bases, cls, error_type)
       IN  rpc' = [rpc EXCEPT
                !.cache = r.cache, !.bases = r.bases,
                !.lookups = @ + 1,
                !.raised = [type |-> error_type, cls |-> r.result]]
    /\ UNCHANGED <<srv, cbs, lb, ms, net, thr, sig, pool>>

InitErrors ==
    /\ rpc = NewErrors
    /\ srv = [s \in {} |-> None]
    /\ cbs = [c \in {} |-> NewCallback]
    /\ lb = NoLoadBalancer
    /\ ms = NoMultiServer
    /\ net = [terminated |-> FALSE, bound |-> {}, frames |-> "none",
              left |-> 0]
    /\ thr = NoThreads
    /\ sig = << >>
    /\ pool = NoPool

NextErrors ==
    \/ \E cls \in ErrorClasses, t \in ErrorTypes : ErrLookup(cls, t)
    \/ \E cls \in ErrorClasses, t \in ErrorTypes : ErrNew(cls, t)

SpecErrors == InitErrors /\ [][NextErrors]_vars

---------------------------------------------------------------------------
(* Properties of the Error classes (checked under SpecErrors).             *)

\* The class is the cached class of the type string, derived from the
\* cached class of its last part, derived from Error.
ThreeLevels(c, error_type) ==
    /\ error_type \in DOMAIN rpc.cache
    /\ GenericType(error_type) \in DOMAIN rpc.cache
    /\ c = rpc.cache[error_type]
    /\ IsSubclass(rpc.bases, c, rpc.cache[GenericType(error_type)])
    /\ IsSubclass(rpc.bases, rpc.cache[GenericType(error_type)], ErrorRoot)

\* C23: after any sequence of lookups (on Error or on a cached class) and
\* of Error instances made, every cached class of a type string
\* "<module>.<ClassName>" derives from the cached class of <ClassName>,
\* which derives from Error; a lookup returns the class the first lookup
\* of the same type string returned; and an Error instance made for a
\* response of a type is an instance of the three classes.
C23_ErrorClasses ==
    /\ \A t \in DOMAIN rpc.cache :
          Len(t) >= 2 => ThreeLevels(rpc.cache[t], t)
    /\ rpc.last # None =>
          /\ rpc.last.cls = rpc.first[rpc.last.type]
          /\ rpc.last.cls = rpc.cache[rpc.last.type]
    /\ rpc.raised # None =>
          /\ ThreeLevels(rpc.raised.cls, rpc.raised.type)
          /\ IsSubclass(rpc.bases, rpc.raised.cls, ErrorRoot)

\* exceptions.TypeError was looked up twice, other.TypeError in between,
\* and an error of type exceptions.TypeError was made.
C23_Witness ==
    /\ rpc.lookups = 3
    /\ rpc.last # None
    /\ rpc.last.type = <<"other", "TypeError">>
    /\ rpc.raised = [type |-> <<"exceptions", "TypeError">>, cls |-> 2]
    /\ Len(rpc.bases) = 3

---------------------------------------------------------------------------
(* Properties of the start of a MultiServer (checked under SpecMulti).     *)

\* C24 as stated: for every kind of callback passed to MultiServer.run, a
\* worker is spawned, and so creates and connects its socket, only after
\* the load balancer has bound the backend address.
C24_BoundBeforeConnect ==
    \A w \in Servers :
        srv[w].pc # "unspawned" => BackendAddr \in net.bound

---------------------------------------------------------------------------
(* Properties of the ways out of Server.run (checked under Spec).          *)

\* The loop of run was left by the transport error exc.
LoopEndedBy(st, errnos) ==
    /\ st.pc = "done"
    /\ st.closed
    /\ st.exc # None
    /\ IsZMQError(st.exc)
    /\ st.exc.errno \in errnos

\* C25 as stated: a server that starts without a failure serves only after
\* it has bound or connected its socket and signalled its callback, and is
\* closed only when run is over; a terminated-context error from receive or
\* send makes run end with no error for its caller; any other transport
\* error is propagated to the caller of run; and on every way out of the
\* loop the socket is closed.
C25_ExitPaths ==
    \A s \in Servers :
        /\ (~srv[s].failed_start /\ srv[s].pc \in {"recv", "process"}) =>
              /\ srv[s].socket \in {"bound", "connected"}
              /\ srv[s].signalled
              /\ ~srv[s].closed
        /\ srv[s].closed => srv[s].pc = "done"
        /\ (srv[s].pc = "done" /\ srv[s].signalled) => srv[s].closed
        /\ LoopEndedBy(srv[s], {"ETERM"}) => srv[s].left = "returned"
        /\ LoopEndedBy(srv[s], Errnos \ {"ETERM"}) => srv[s].left = "raised"

---------------------------------------------------------------------------
(* Properties of the ways out of LoadBalancer.run (checked under           *)
(* SpecLoadBal).                                                           *)

\* run started without a failure, invoked the device, and the device ended
\* by raising an exception of the given name.
DeviceEndedBy(name) ==
    /\ lb.pc = "done"
    /\ ~lb.failed_start
    /\ LogOf("device") # {}
    /\ lb.exc # None
    /\ lb.exc.name = name

\* The errno values LoadBalancer.run takes for a terminated context.
TerminationErrnos == {"0", "ETERM", "EAGAIN"}

\* C26 as stated: when the device fails with a terminated-context error
\* (a ZMQError whose errno is 0, ETERM or EAGAIN) or is interrupted, run
\* ends with no error for its caller; every other transport error is
\* propagated to the caller of run; and both sockets are closed on every
\* way out of the device.
C26_DeviceExit ==
    /\ (lb.pc = "done" /\ LogOf("device") # {}) =>
          lb.input_closed /\ lb.output_closed
    /\ DeviceEndedBy("KeyboardInterrupt") => lb.left = "returned"
    /\ (DeviceEndedBy("ZMQError") /\ lb.exc.errno \in TerminationErrnos) =>
          lb.left = "returned"
    /\ (DeviceEndedBy("ZMQError") /\ lb.exc.errno \notin TerminationErrnos) =>
          lb.left = "raised"

---------------------------------------------------------------------------
(* Properties of the locking of the free list (checked under SpecPool).    *)

\* The thread is at a statement of get that reads or changes self.objects:
\* the test with popleft, or the append.
AtFreeList(t) == thr[t].pc \in {"take", "append"}

\* C27 as stated: a thread reads or changes the free list (the emptiness
\* test with the pop at checkout, the re-add at release) only while it
\* holds the pool's lock, so no two threads are at the free list at the
\* same time.
C27_LockGuardsFreeList ==
    /\ \A t \in PoolThreadIds : AtFreeList(t) => pool.object_lock = t
    /\ \A t, u \in PoolThreadIds :
          (AtFreeList(t) /\ AtFreeList(u)) => t = u

\* The objects of the free list.
FreeObjects == {pool.objects[i] : i \in 1..Len(pool.objects)}

\* C28: factory is called only by a checkout that found the free list
\* empty, and a checkout that finds it non-empty takes its first object;
\* get scopes that do not overlap, with bodies that end normally, all use
\* one object; scopes open at once hold different objects; and once every
\* scope is left, no body having raised, the free list holds each object
\* that factory made exactly once.
C28_Reuse ==
    /\ [][\A t \in PoolThreadIds :
            /\ (thr[t].pc # "factory" /\ thr'[t].pc = "factory") =>
                   (thr[t].pc = "take" /\ pool.objects = << >>)
            /\ (thr[t].pc = "take" /\ thr'[t] # thr[t]
                /\ pool.objects # << >>) =>
                   /\ thr'[t].obj = Head(pool.objects)
                   /\ thr'[t].pc = "unlock"
            /\ (thr'[t].obj # thr[t].obj /\ thr'[t].obj > pool.made) =>
                   thr[t].pc = "factory"]_vars
    /\ [][pool'.made # pool.made =>
            \E t \in PoolThreadIds : thr[t].pc = "factory"]_vars
    /\ []((~pool.overlapped /\ ~pool.raised) =>
            /\ pool.made <= 1
            /\ \A t \in PoolThreadIds : thr[t].obj \in {0, 1})
    /\ [](\A t, u \in PoolThreadIds :
            (t # u /\ thr[t].obj # 0 /\ thr[u].obj # 0) =>
                thr[t].obj # thr[u].obj)
    /\ []((PoolQuiet /\ ~pool.raised) =>
            /\ Len(pool.objects) = pool.made
            /\ FreeObjects = 1..pool.made)

\* The second of two get scopes, entered after the first was left, is in
\* its body with the object that factory made for the first.
C28_Witness ==
    /\ pool.gets = 2 /\ ~pool.overlapped /\ ~pool.raised
    /\ pool.made = 1
    /\ \E t \in PoolThreadIds : thr[t].pc = "body" /\ thr[t].obj = 1

\* The exception the handler of the request raised.
Raised(msg) == HandlerOutcome(msg).exc

\* C29 as stated: for a request whose handler raises, the error record of
\* the response has type and message, and args exactly when the args of
\* the exception are encodable; when they are not, the probe's failure
\* does not end run: run is over after the request only when the
\* transport failed or the error response was the last one die_after
\* allowed.
C29_ArgsIffEncodable ==
    \A s \in Servers :
        (WellFormed(srv[s].msg) /\ HandlerFails(srv[s].msg)) =>
            /\ srv[s].response # None =>
                  /\ IsErrorResponse(srv[s].response)
                  /\ HasKey(srv[s].response.error, "type")
                  /\ HasKey(srv[s].response.error, "message")
                  /\ HasKey(srv[s].response.error, "args")
                         <=> ArgsEncodable(Raised(srv[s].msg).args)
            /\ (~ArgsEncodable(Raised(srv[s].msg).args)
                /\ srv[s].pc = "done") =>
                  \/ TransportFailed(srv[s])
                  \/ /\ srv[s].exit = "returned"
                     /\ IsErrorResponse(srv[s].response)
                     /\ ~HasKey(srv[s].response.error, "args")
                     /\ srv[s].iter = IntV(0)

\* No reset() has been started.
NeverReset == \A t \in WaiterIds : thr[t].resets = 0

\* An outcome is stored in the callback: a value or an exception.
OutcomeStored(cb) == cb.value # None \/ cb.exc_info # None

\* C30: while no reset() is made, the event is raised only with an outcome
\* already stored and the step that raises it leaves the outcome as it is,
\* so the event is never up over an empty callback and a waiter past
\* event.wait() finds the outcome; with one send or throw call made, a
\* wait() that has finished returned the value stored by the send (never
\* None) or raised the exception stored by the throw (never returned).
C30_StoredBeforeSet ==
    /\ [][(NeverReset /\ ~cbs["cb"].event /\ cbs'["cb"].event) =>
            /\ OutcomeStored(cbs["cb"])
            /\ cbs'["cb"].value = cbs["cb"].value
            /\ cbs'["cb"].exc_info = cbs["cb"].exc_info]_vars
    /\ [](NeverReset =>
            /\ cbs["cb"].event => OutcomeStored(cbs["cb"])
            /\ \A t \in WaiterIds :
                  thr[t].pc \in {"wait_exc", "wait_value"} =>
                      /\ cbs["cb"].event
                      /\ OutcomeStored(cbs["cb"]))
    /\ []((NeverReset /\ \A s \in SignalerIds : thr[s].sends = 1) =>
            \A t \in WaiterIds :
                /\ thr[t].result.kind = "return" =>
                      /\ thr[t].result.value # None
                      /\ thr[t].result.value \in SentValues
                      /\ thr[t].result.value = cbs["cb"].value
                      /\ cbs["cb"].exc_info = None
                /\ thr[t].result.kind = "raise" =>
                      /\ thr[t].result.exc = cbs["cb"].exc_info
                      /\ cbs["cb"].value = None)

\* A waiter that had to block was released by the one send made and
\* returned the value sent.
C30_Witness ==
    /\ NeverReset
    /\ \A s \in SignalerIds : thr[s].sends = 1
    /\ \E t \in WaiterIds :
          /\ thr[t].blocked
          /\ thr[t].result = Return(IntV(123))

\* The threads that hold a permit of the semaphore: past its acquire and
\* not yet past the release in the finally of its acquiring.
PermitHolders ==
    {t \in PoolThreadIds :
        thr[t].pc \in {"lock", "take", "factory", "unlock", "body",
                       "append", "release"}}

\* The get of the thread has failed, or is failing, with EWOULDBLOCK.
FailsWouldBlock(st) == st.exc = WouldBlock \/ st.result = Raise(WouldBlock)

\* C31: the steps of a non-blocking get that fails with EWOULDBLOCK leave
\* the pool as it is, but for the permit: a get refused by the semaphore
\* changes nothing and releases nothing; a get refused by the lock, held
\* by another thread, changes nothing at that step and then gives its
\* permit back, touching neither the lock nor the free list nor the count
\* of objects made; such a get never holds an object or the lock, and the
\* permits out are always those of the threads between acquire and release.
C31_WouldBlockFrame ==
    /\ [][\A t \in PoolThreadIds :
            /\ (thr[t].pc = "sem" /\ thr'[t].pc = "idle") =>
                   /\ ~thr[t].blocking
                   /\ thr'[t].result = Raise(WouldBlock)
                   /\ pool' = pool
            /\ (thr[t].pc = "lock" /\ thr'[t].pc = "release") =>
                   /\ ~thr[t].blocking
                   /\ pool.object_lock \notin {"free", t}
                   /\ thr'[t].exc = WouldBlock
                   /\ pool' = pool
            /\ (thr[t].pc = "release" /\ thr[t].exc = WouldBlock
                /\ thr'[t] # thr[t]) =>
                   /\ thr'[t].pc = "idle"
                   /\ thr'[t].result = Raise(WouldBlock)
                   /\ pool' = [pool EXCEPT !.semaphore = @ + 1]]_vars
    /\ [](\A t \in PoolThreadIds :
            FailsWouldBlock(thr[t]) =>
                /\ thr[t].obj = 0
                /\ pool.object_lock # t
                /\ thr[t].pc \in {"release", "idle"})
    /\ [](/\ pool.semaphore + Cardinality(PermitHolders) = pool.maxsize
          /\ pool.semaphore <= pool.maxsize)

\* Of the two gets made on a pool of maxsize 2, the non-blocking one found
\* the lock held by the other, failed with EWOULDBLOCK and has given its
\* permit back, while the other still holds the lock.
C31_Witness ==
    /\ pool.maxsize = 2 /\ pool.gets = 2
    /\ pool.semaphore = 1
    /\ \E t, u \in PoolThreadIds :
          /\ thr[t].pc = "idle" /\ thr[t].result = Raise(WouldBlock)
          /\ pool.object_lock = u

---------------------------------------------------------------------------
(* ObjectPool.get with a factory that can fail.                            *)

\* What a failing factory raises.
FactoryError ==
    Exc("exceptions", "RuntimeError", <<StrV("factory")>>, "factory", TRUE)

\* obj = self.factory() raises: the exception leaves the lock's acquiring
\* (see Unlock) and then the semaphore's.
FactoryFails(t) ==
    /\ thr[t].pc = "factory"
    /\ pool' = pool
    /\ thr' = [thr EXCEPT ![t].pc = "unlock", ![t].exc = FactoryError]
    /\ UNCHANGED <<srv, cbs, lb, ms, net, sig, rpc>>

\* A step of a thread inside a get scope it has entered.
ContinueCapacity(t) ==
    \/ ContinuePool(t)
    \/ FactoryFails(t)

NextCapacity ==
    \/ \E t \in PoolThreadIds, blocking \in BOOLEAN : GetEnter(t, blocking)
    \/ \E t \in PoolThreadIds : SemAcquire(t)
    \/ \E t \in PoolThreadIds : LockAcquire(t)
    \/ \E t \in PoolThreadIds : Take(t)
    \/ \E t \in PoolThreadIds : Factory(t)
    \/ \E t \in PoolThreadIds : FactoryFails(t)
    \/ \E t \in PoolThreadIds : Unlock(t)
    \/ \E t \in PoolThreadIds, exc \in {None, BodyError} : BodyEnd(t, exc)
    \/ \E t \in PoolThreadIds : PoolAppend(t)
    \/ \E t \in PoolThreadIds : SemRelease(t)

SpecCapacity == InitPool /\ [][NextCapacity]_vars

\* A thread that has entered a get scope runs it to its end, waiting
\* where the code waits.
FairCapacity ==
    /\ SpecCapacity
    /\ \A t \in PoolThreadIds : WF_vars(ContinueCapacity(t))

---------------------------------------------------------------------------
(* Properties of ObjectPool.get with a failing factory (under              *)
(* FairCapacity).                                                          *)

\* The thread that holds the lock is inside the lock's acquiring.
LockHeldInside ==
    \/ pool.object_lock = "free"
    \/ /\ pool.object_lock \in PoolThreadIds
       /\ thr[pool.object_lock].pc \in {"take", "factory", "unlock"}

\* C32: however the get scopes ended (body completed, body raised,
\* factory raised, EWOULDBLOCK), once every scope is left the semaphore
\* has maxsize permits again and the lock is free; the lock is held only
\* by a thread inside the lock's acquiring, and a thread outside every
\* scope holds no permit; and a thread blocked in get(blocking=True) gets
\* past the semaphore and is handed an object, unless its own call of
\* factory raises.
C32_NoCapacityLeak ==
    /\ [](PoolQuiet =>
            /\ pool.semaphore = pool.maxsize
            /\ pool.object_lock = "free")
    /\ [](/\ LockHeldInside
          /\ pool.semaphore >= 0
          /\ pool.maxsize - pool.semaphore
                 <= Cardinality({t \in PoolThreadIds : thr[t].pc # "idle"}))
    /\ \A t \in PoolThreadIds :
          (thr[t].blocking /\ thr[t].pc = "sem_blocked")
              ~> \/ thr[t].pc = "body" /\ thr[t].obj # 0
                 \/ thr[t].exc = FactoryError

\* On a pool of maxsize 1 one get ended by a failure of factory; a second,
\* which had to wait for the permit, got its object and ended by an
\* exception of its body; every scope is left and the permit is back.
C32_Witness ==
    /\ PoolQuiet
    /\ pool.maxsize = 1 /\ pool.semaphore = 1 /\ pool.object_lock = "free"
    /\ \E t, u \in PoolThreadIds :
          /\ thr[t].result = Raise(FactoryError)
          /\ thr[u].waited /\ thr[u].result = Raise(BodyError)

=============================================================================
